---- MODULE Spec2Model ----
(***************************************************************************)
(* Token creation service: the transaction submission pipelines of         *)
(* TokenService.createPumpFunToken, createBonkTokenTx and                  *)
(* TokenService.submitTransaction / fallbackDirectSubmission               *)
(* (src/src/pinata/index.ts).  One request is followed from its arrival    *)
(* to its outcome; every awaited external call is one step, and the        *)
(* outcome of an external call is chosen nondeterministically.             *)
(***************************************************************************)
EXTENDS Integers, Sequences, FiniteSets, TLC

\* ---------------------------------------------------------------- bounds
\* number of distinct mint keys Keypair.generate() can return
MaxMintKeys == 2

\* number of records after which no further call is followed
MaxRecords == 2

\* at most this many blockhashes are handed to other operations while one
\* is followed
MaxOthers == 1

\* ------------------------------------------------------ program constants
MaxNameLen == 32
MaxSymbolLen == 8
MaxUriLen == 200
SecretKeyLen == 64
MaxImageLen == 100000000
GatewayLen == 52
maxAttemptsOffByOne == 20 + 1
maxAttempts == 20
maxRetriesOffByOne == 3 + 1
maxRetries == 3
DefaultDecimals == 6
MaxDecimals == 9

\* ------------------------------------------------------------ JS helpers
\* an optional value is <<>> (undefined) or <<v>>
Undefined == <<>>
Some(v) == <<v>>

\* JavaScript truthiness of an optional number: undefined and 0 are falsy
TruthyNum(o) == o # <<>> /\ o[1] # 0

\* JavaScript truthiness of an optional boolean
TruthyBool(o) == o # <<>> /\ o[1]

\* JavaScript truthiness of an optional string (a sequence of characters)
TruthyStr(o) == o # <<>> /\ o[1] # <<>>

HasPrefix(s, p) == Len(s) >= Len(p) /\ SubSeq(s, 1, Len(p)) = p

\* /^(https?:\/\/)/.test(s)
urlPattern(s) ==
    \/ HasPrefix(s, <<"h", "t", "t", "p", ":", "/", "/">>)
    \/ HasPrefix(s, <<"h", "t", "t", "p", "s", ":", "/", "/">>)

\* ---------------------------------------------------------------- strings
\* a JavaScript string is a sequence of characters; a character has the
\* number of UTF-16 code units .length counts for it and the number of bytes
\* its UTF-8 encoding takes
CharA == [cp |-> "a", units |-> 1, bytes |-> 1]
CharEuro == [cp |-> "euro", units |-> 1, bytes |-> 3]
CharGrin == [cp |-> "grinning-face", units |-> 2, bytes |-> 4]

\* a string of n one-byte characters
Text(n) == [i \in 1..n |-> CharA]

\* the string of the one-byte characters named
Ascii(names) == [i \in DOMAIN names |-> [cp |-> names[i], units |-> 1, bytes |-> 1]]

RECURSIVE length(_)
\* String.prototype.length
length(s) == IF s = <<>> THEN 0 ELSE Head(s).units + length(Tail(s))

\* the bytes of one character: the i-th of c.bytes bytes of character c
CharBytes(c) == [i \in 1..c.bytes |-> [of |-> c, i |-> i]]

RECURSIVE Utf8(_)
\* Buffer.from(s) / the 'utf8' encoding of s
Utf8(s) == IF s = <<>> THEN <<>> ELSE CharBytes(Head(s)) \o Utf8(Tail(s))

CharReplacement == [cp |-> "U+FFFD", units |-> 1, bytes |-> 3]

RECURSIVE Utf8Decode(_)
\* buffer.toString('utf8'): a lead byte followed by the rest of its
\* character decodes to the character; anything else decodes to U+FFFD
Utf8Decode(b) ==
    IF b = <<>> THEN <<>>
    ELSE LET c == Head(b).of
         IN  IF Head(b).i = 1 /\ Len(b) >= c.bytes /\ SubSeq(b, 1, c.bytes) = CharBytes(c)
             THEN <<c>> \o Utf8Decode(SubSeq(b, c.bytes + 1, Len(b)))
             ELSE <<CharReplacement>> \o Utf8Decode(Tail(b))

\* ------------------------------------------------------------------ keys
\* a keypair is identified by a number; the creator's keypair is 0 and the
\* mint keypairs are 1..MaxMintKeys
CreatorKey == 0
MintKeys == 1..MaxMintKeys

\* Keypair.publicKey
PublicKey(kp) == [pub |-> kp]

\* PublicKey.toBase58()
toBase58(pk) == [b58 |-> pk.pub]

\* the three program-derived addresses findAvailableAccounts computes
BondingCurvePda(mintPub) == [pda |-> "bonding-curve", mint |-> mintPub.pub]
\* SEEDS.ASSOCIATED_BONDING_CURVE_CONSTANT is the 32 bytes of the SPL Token
\* program's address (TokenkegQfeZyiNwAJbNbGKPFXCWuBvf9Ss623VQ5DA)
AssociatedBondingCurvePda(mintPub) ==
    [pda |-> "associated", owner |-> BondingCurvePda(mintPub),
     tokenProgram |-> "Tokenkeg", mint |-> mintPub.pub]
MetadataPda(mintPub) == [pda |-> "metadata", mint |-> mintPub.pub]

\* --------------------------------------------------------------- requests
UrlValues ==
    { Undefined,
      Some(<<"h", "t", "t", "p", ":", "/", "/", "a">>),
      Some(<<"h", "t", "t", "p", "s", ":", "/", "/", "a">>),
      Some(<<"f", "t", "p", ":", "/", "/", "a">>) }

BuyAmountValues == { Undefined, Some(-1), Some(0), Some(1) }

MayhemModeValues == { Undefined, Some(FALSE), Some(TRUE) }

\* name, symbol, uri, the image buffer and the secret key are represented
\* by their lengths (0: absent or empty); mayhemMode is varied on the
\* requests without other optional fields
Requests ==
    { r \in [ nameLen : {0, MaxNameLen, MaxNameLen + 1},
              symbolLen : {MaxSymbolLen, MaxSymbolLen + 1},
              keyLen : {SecretKeyLen - 1, SecretKeyLen},
              uriLen : {0, MaxUriLen, MaxUriLen + 1},
              imageLen : {0, 1, MaxImageLen + 1},
              url : UrlValues,
              buyAmount : BuyAmountValues,
              mayhemMode : MayhemModeValues ] :
        r.mayhemMode = Undefined
        \/ (r.url = Undefined /\ r.buyAmount = Undefined /\ r.uriLen = 0) }

\* the requests without optional fields
PlainRequests ==
    { r \in Requests : /\ r.url = Undefined /\ r.buyAmount = Undefined
                       /\ r.uriLen = 0 /\ r.mayhemMode = Undefined }

DecimalsValues == { Undefined, Some(-1), Some(0), Some(5), Some(MaxDecimals),
                    Some(MaxDecimals + 1) }

\* LaunchpadRequest: the fields above (an image is required, a uri is not
\* taken) and the optional decimals; decimals are varied on the requests
\* without other optional fields
LaunchpadRequests ==
    { r \in [ nameLen : {0, MaxNameLen, MaxNameLen + 1},
              symbolLen : {MaxSymbolLen, MaxSymbolLen + 1},
              keyLen : {SecretKeyLen},
              uriLen : {0},
              imageLen : {0, 1},
              url : UrlValues,
              buyAmount : BuyAmountValues,
              decimals : DecimalsValues ] :
        r.decimals = Undefined \/ (r.url = Undefined /\ r.buyAmount = Undefined) }

PlainLaunchpadRequests ==
    { r \in LaunchpadRequests : r.url = Undefined /\ r.buyAmount = Undefined }

\* ------------------------------------------------------------ transaction
NoUri == [len |-> 0, from |-> "none"]

\* createPumpFunInstruction: the addresses it derives from the mint, which
\* are keys[2], keys[3], keys[12] and keys[13]; the associated token
\* account is derived with the Token-2022 program's address
\* (TokenzQdBNbLqP5VEhdkAS6EPFLC1PHnBqCXEpPxuEb) as its middle seed
InstructionAccounts(mintPub) ==
    [bondingCurve |-> BondingCurvePda(mintPub),
     associatedBondingCurve |->
        [pda |-> "associated", owner |-> BondingCurvePda(mintPub),
         tokenProgram |-> "Tokenz", mint |-> mintPub.pub],
     mayhemState |-> [pda |-> "mayhem-state", mint |-> mintPub.pub],
     mayhemTokenVault |->
        [pda |-> "associated", owner |-> [pda |-> "sol-vault"],
         tokenProgram |-> "Tokenz", mint |-> mintPub.pub]]

\* the create instruction with the creator in the mint's place
CreateInstructionSwapped(mintPub, creatorKp, r) ==
    [mint |-> PublicKey(creatorKp), creator |-> mintPub, uri |-> r.uri,
     mayhemMode |-> IF TruthyBool(r.mayhemMode) THEN 1 ELSE 0,
     accounts |-> InstructionAccounts(mintPub)]

\* the create instruction with an empty uri in the data
CreateInstructionNoUri(mintPub, creatorKp, r) ==
    [mint |-> mintPub, creator |-> PublicKey(creatorKp), uri |-> NoUri,
     mayhemMode |-> IF TruthyBool(r.mayhemMode) THEN 1 ELSE 0,
     accounts |-> InstructionAccounts(mintPub)]

\* `{ ...req, uri }`: the request as createPumpFunInstruction reads it
WithUri(r, u) == [uri |-> u, mayhemMode |-> r.mayhemMode]

\* createPumpFunInstruction: the accounts and data of the create
\* instruction that the claims read: keys[0] (the mint account), keys[5]
\* (the creator), the uri written into the data, and the data's last byte,
\* `req.mayhemMode || false` written as 1 or 0
CreateInstruction(mintPub, creatorKp, r) ==
    [mint |-> mintPub, creator |-> PublicKey(creatorKp), uri |-> r.uri,
     mayhemMode |-> IF TruthyBool(r.mayhemMode) THEN 1 ELSE 0,
     accounts |-> InstructionAccounts(mintPub)]

NoIx == [mint |-> PublicKey(CreatorKey), creator |-> PublicKey(CreatorKey), uri |-> NoUri]

\* a transaction: its create instruction, its fee payer, its recent
\* blockhash, and the blockhash its current signatures were made over
\* (0: unsigned) with the public keys of the keypairs that signed
NoTx == [ix |-> NoIx, feePayer |-> PublicKey(CreatorKey),
         recentBlockhash |-> 0, signedBlockhash |-> 0, signers |-> {}]

\* transaction.sign(...keypairs): signatures cover the current blockhash
Sign(t, keypairs) ==
    [t EXCEPT !.signedBlockhash = t.recentBlockhash,
              !.signers = { PublicKey(k) : k \in keypairs }]

\* transaction.recentBlockhash = b
SetBlockhash(t, b) == [t EXCEPT !.recentBlockhash = b]

\* new Transaction().add(ix); feePayer = payer; recentBlockhash = b
NewTransaction(ix, payerKp, b) ==
    [NoTx EXCEPT !.ix = ix, !.feePayer = PublicKey(payerKp), !.recentBlockhash = b]

\* the signature string of a signed transaction: determined by the message
\* signed (its mint account and blockhash)
SignatureOf(t) == [mint |-> t.ix.mint.pub, bh |-> t.signedBlockhash]
EmptySignature == [mint |-> 0, bh |-> 0]

\* ------------------------------------------------------------------ state
VARIABLES
    op,              \* "pump": createPumpFunToken, "bonk": createBonkTokenTx,
                     \* "submit": submitTransaction,
                     \* "http": POST /pumpfun/create-token
    req,             \* the request's parameters
    pc,              \* the await the operation is suspended at
    creatorKeypair,  \* <<>> until the creator keypair is decoded
    tokenMint,       \* the mint keypair (0: none yet)
    attempts,        \* findAvailableAccounts: loop counter
    probe,           \* findAvailableAccounts: what the four probes of the
                     \* last attempt reported (TRUE: occupied)
    uri,             \* the metadata upload's result ([len |-> 0]: none)
    tx,              \* the transaction object
    latestBlockhash, \* the blockhash the operation holds in latestBlockhash
    bhCounter,       \* blockhashes handed out by the RPC node so far
    sim,             \* simulation result: "none", "ok", "err"
    signature,       \* the operation's signature variable
    chainOk,         \* signed versions of the transaction observed on the
    chainErr,        \* ledger as succeeded / as failed in execution
    subs,            \* the submissions made, in order
    attempt,         \* fallbackDirectSubmission: loop counter
    fbResult,        \* fallbackDirectSubmission: its result variable
    db,              \* the token table: a sequence of records
    calls,           \* counts of external calls made for this request
    result,          \* the operation's outcome
    res,             \* the HTTP response sent for the request (for a read of
                     \* an uploaded object: the response received)
    errs,            \* fallbackDirectSubmission: the error each failed
                     \* attempt ended with, in order
    env,             \* the credentials set in the process environment
    server,          \* "starting", "crashed", "connected", "exited", "serving"
    others,          \* the blockhashes the node has handed to other
                     \* operations running at the same time
    stored           \* the metadata object the operation's upload put into
                     \* the bucket: its address and its bytes

vars == <<op, req, pc, creatorKeypair, tokenMint, attempts, probe, uri, tx,
          latestBlockhash, bhCounter, sim, signature, chainOk, chainErr, subs,
          attempt, fbResult, db, calls, result, res, errs, env, server, others, stored>>

NoCalls == [rpc |-> 0, relay |-> 0, direct |-> 0, simulate |-> 0,
            upload |-> 0, dbCreate |-> 0, dbUpdate |-> 0, dbError |-> 0]

NoProbe == [mint |-> 0, addrs |-> <<>>, occupied |-> <<FALSE, FALSE, FALSE, FALSE>>]
NoFbResult == [confirmed |-> FALSE, signature |-> EmptySignature, error |-> ""]

NoResult == [kind |-> "none", success |-> FALSE, signature |-> EmptySignature,
             mintAddress |-> [b58 |-> 0], error |-> ""]

\* no HTTP response sent (status 0)
NoResponse == [status |-> 0, success |-> FALSE, error |-> "", signature |-> NoResult]

\* the operations that run createPumpFunToken: a call of it, and the route
\* handler that calls it
PumpOps == {"pump", "http"}

\* `return { success: false, error }` (createPumpFunToken's catch)
Failure(msg) == [NoResult EXCEPT !.kind = "returned", !.error = msg]

\* `throw error` (createBonkTokenTx's catch)
Thrown(msg) == [NoResult EXCEPT !.kind = "thrown", !.error = msg]

\* the lengths of the content identifier the storage service reports for an
\* uploaded object: an IPFS CID of 46 characters, and a value that takes the
\* address past MaxUriLen
HashLens == {46, MaxUriLen - GatewayLen}

\* what uploadToFilebase returns for the metadata object: the gateway
\* address, "/", and the identifier the service reported (h characters)
UploadedUri(h) == [len |-> GatewayLen + 1 + h, from |-> "upload"]

\* --------------------------------------------------------------- metadata
\* what the uploaders are called with: the text fields of a request
MetadataRequests ==
    [ name : {<<CharA>>, <<CharA, CharEuro>>},
      symbol : {<<CharA>>, <<CharGrin>>},
      description : {Undefined, Some(<<>>), Some(<<CharA, CharEuro>>)},
      external_url : {Undefined, Some(<<"h", "t", "t", "p", "s", ":", "/", "/", "a">>)},
      attributes : {Undefined, Some(<<>>),
                   Some(<<[trait_type |-> <<CharA>>, value |-> <<CharEuro>>]>>)},
      imageLen : {0, 1} ]

\* the text fields of a request whose name and symbol are given by their
\* lengths
UploadArgs(r) ==
    [name |-> Text(r.nameLen), symbol |-> Text(r.symbolLen),
     description |-> Undefined, external_url |-> r.url,
     attributes |-> Undefined, imageLen |-> r.imageLen]

\* the address of an uploaded image: gateway, "/", and a 46-character
\* identifier
ImageUrl == [len |-> GatewayLen + 1 + 46, from |-> "upload"]

\* FilebaseService.uploadMetadata: the image is uploaded when the request
\* has an image buffer and a file name (the route handler sets both from
\* the uploaded file)
imageUrlOf(r) == IF r.imageLen # 0 THEN ImageUrl ELSE NoUri

\* FilebaseService.uploadMetadata: `const metadata = {...}`
uploadMetadataDocument(r) ==
    [name |-> r.name,
     symbol |-> r.symbol,
     description |-> IF TruthyStr(r.description) THEN r.description[1]
                     ELSE r.name \o Ascii(<<" ", "t", "o", "k", "e", "n">>),
     image |-> IF imageUrlOf(r) # NoUri THEN [url |-> imageUrlOf(r)]
               ELSE IF TruthyStr(r.external_url) THEN [text |-> Ascii(r.external_url[1])]
               ELSE [text |-> <<>>],
     external_url |-> IF TruthyStr(r.external_url) THEN Ascii(r.external_url[1])
                      ELSE <<>>,
     attributes |-> <<[trait_type |-> Ascii(<<"s", "y", "m", "b", "o", "l">>), value |-> r.symbol]>>]

\* createBonkFunTokenMetadata: `const metadata = {...}`
BonkPlatform == Ascii(<<"B", "o", "n", "k">>)
createBonkFunTokenMetadataDocument(r) ==
    [name |-> r.name,
     symbol |-> r.symbol,
     description |-> IF TruthyStr(r.description) THEN r.description[1] ELSE <<>>,
     image |-> [url |-> ImageUrl],
     external_url |-> IF TruthyStr(r.external_url) THEN Ascii(r.external_url[1])
                      ELSE Ascii(<<"h", "t", "t", "p", "s", ":", "/", "/", "b">>),
     attributes |-> <<[trait_type |-> Ascii(<<"P">>), value |-> BonkPlatform],
                      [trait_type |-> Ascii(<<"C">>), value |-> BonkPlatform]>>]

\* Buffer.from(JSON.stringify(metadata, null, 2)): every member is written
\* (none is undefined), strings as the bytes of their characters
Stringify(doc) ==
    [name |-> Utf8(doc.name),
     symbol |-> Utf8(doc.symbol),
     description |-> Utf8(doc.description),
     image |-> IF "text" \in DOMAIN doc.image
               THEN [text |-> Utf8(doc.image.text)] ELSE doc.image,
     external_url |-> Utf8(doc.external_url),
     attributes |-> [i \in DOMAIN doc.attributes |->
                       [trait_type |-> Utf8(doc.attributes[i].trait_type),
                        value |-> Utf8(doc.attributes[i].value)]]]

\* JSON.parse of the bytes fetched from the address
Parse(body) ==
    [name |-> Utf8Decode(body.name),
     symbol |-> Utf8Decode(body.symbol),
     description |-> Utf8Decode(body.description),
     image |-> IF "text" \in DOMAIN body.image
               THEN [text |-> Utf8Decode(body.image.text)] ELSE body.image,
     external_url |-> Utf8Decode(body.external_url),
     attributes |-> [i \in DOMAIN body.attributes |->
                       [trait_type |-> Utf8Decode(body.attributes[i].trait_type),
                        value |-> Utf8Decode(body.attributes[i].value)]]]

\* nothing uploaded
NoObject == [uri |-> NoUri, body |-> <<>>]

\* uploadToFilebase(Buffer.from(metadataJson), ...): the object put at the
\* address returned
StoredObject(u, doc) == [uri |-> u, body |-> Stringify(doc)]

\* a record the submitted transaction's caller stored before submitTransaction
PendingRecord(mint) == [tokenMint |-> toBase58(PublicKey(mint)),
                        signature |-> EmptySignature, status |-> "bonding"]

ValidRequest == [nameLen |-> MaxNameLen, symbolLen |-> MaxSymbolLen,
                 keyLen |-> SecretKeyLen, uriLen |-> 0, imageLen |-> 1,
                 url |-> Undefined, buyAmount |-> Undefined,
                 mayhemMode |-> Undefined]

\* the transaction handed to submitTransaction: built and signed over
\* blockhash 1
BuiltTx(mint) ==
    Sign(NewTransaction(CreateInstruction(PublicKey(mint), CreatorKey,
                                          WithUri(ValidRequest, UploadedUri(46))),
                        CreatorKey, 1), {mint, CreatorKey})

InitCommon ==
    /\ attempts = 0
    /\ probe = NoProbe
    /\ uri = NoUri
    /\ sim = "none"
    /\ signature = EmptySignature
    /\ chainOk = {}
    /\ chainErr = {}
    /\ subs = <<>>
    /\ attempt = 0
    /\ fbResult = NoFbResult
    /\ calls = NoCalls
    /\ result = NoResult
    /\ res = NoResponse
    /\ errs = <<>>
    /\ others = {}
    /\ stored = NoObject

\* the environment variables holding credentials (TRUE: set and not empty)
Environments ==
    [ FILEBASE_API_KEY : BOOLEAN, FILEBASE_API_SECRET : BOOLEAN,
      PINATA_JWT : BOOLEAN, HELIUS_API_KEY : BOOLEAN ]

AllCredentials ==
    [ FILEBASE_API_KEY |-> TRUE, FILEBASE_API_SECRET |-> TRUE,
      PINATA_JWT |-> TRUE, HELIUS_API_KEY |-> TRUE ]

\* a running server
Serving ==
    /\ env = AllCredentials
    /\ server = "serving"

\* the process starting: src/index.ts is loaded
InitStartup ==
    /\ op = "startup"
    /\ env \in Environments
    /\ server = "starting"
    /\ req = ValidRequest
    /\ pc = "boot"
    /\ creatorKeypair = <<>>
    /\ tokenMint = 0
    /\ tx = NoTx
    /\ latestBlockhash = 0
    /\ bhCounter = 0
    /\ db = <<>>
    /\ InitCommon

\* a request arriving at createPumpFunToken
InitPump ==
    /\ op = "pump"
    /\ Serving
    /\ req \in Requests
    /\ pc = "start"
    /\ creatorKeypair = <<>>
    /\ tokenMint = 0
    /\ tx = NoTx
    /\ latestBlockhash = 0
    /\ bhCounter = 0
    /\ db = <<>>
    /\ InitCommon

\* a POST /pumpfun/create-token request arriving at the route handler
InitHttp ==
    /\ op = "http"
    /\ Serving
    /\ req \in Requests
    /\ pc = "h_validate"
    /\ creatorKeypair = <<>>
    /\ tokenMint = 0
    /\ tx = NoTx
    /\ latestBlockhash = 0
    /\ bhCounter = 0
    /\ db = <<>>
    /\ InitCommon

\* a call of createBonkTokenTx(connection, mainKp, mintKp, tokenData)
InitBonk ==
    /\ op = "bonk"
    /\ Serving
    /\ req \in LaunchpadRequests
    /\ pc = "start"
    /\ creatorKeypair = <<CreatorKey>>
    /\ tokenMint \in MintKeys
    /\ tx = NoTx
    /\ latestBlockhash = 0
    /\ bhCounter = 0
    /\ db = <<>>
    /\ InitCommon

\* a call of submitTransaction(transaction, creatorKeypair, latestBlockhash,
\* tokenMint)
InitSubmit ==
    /\ op = "submit"
    /\ Serving
    /\ req = ValidRequest
    /\ pc = "s_jito"
    /\ creatorKeypair = <<CreatorKey>>
    /\ tokenMint \in MintKeys
    /\ tx = BuiltTx(tokenMint)
    /\ latestBlockhash = 1
    /\ bhCounter = 1
    /\ db \in { <<>>, <<PendingRecord(tokenMint)>> }
    /\ InitCommon

\* a call of filebaseService.uploadMetadata, followed by a read of the
\* address it returned
InitMetadata ==
    /\ op = "metadata"
    /\ Serving
    /\ req \in MetadataRequests
    /\ pc = "m_upload"
    /\ creatorKeypair = <<>>
    /\ tokenMint = 0
    /\ tx = NoTx
    /\ latestBlockhash = 0
    /\ bhCounter = 0
    /\ db = <<>>
    /\ InitCommon

\* createPumpFunInstruction: the instruction data
\* the bytes of a buffer: a zero byte of Buffer.alloc, a discriminator byte,
\* the i-th byte of a 32-bit length, a byte of a character (CharBytes), the
\* i-th byte of a public key, and the mode byte
ZeroByte == [zero |-> TRUE]
Discriminator == [i \in 1..8 |-> [discriminator |-> i]]
UInt32LE(n) == [i \in 1..4 |-> [u32 |-> n, i |-> i]]
KeyBytes(pub) == [i \in 1..32 |-> [key |-> pub, i |-> i]]
UInt8(n) == <<[u8 |-> n]>>

\* Buffer.alloc(n)
Alloc(n) == [i \in 1..n |-> ZeroByte]

\* buf.writeUInt8 / buf.writeUInt32LE / buf.write(hex, offset, 'hex'): the
\* bytes are put at offset (they fit wherever the code writes them)
WriteBytes(bytes, offset) == [bytes |-> bytes, offset |-> offset]

RECURSIVE FittingChars(_, _)
\* the longest prefix of s whose characters' bytes fit into n bytes
FittingChars(s, n) ==
    IF s = <<>> \/ Head(s).bytes > n THEN <<>>
    ELSE <<Head(s)>> \o FittingChars(Tail(s), n - Head(s).bytes)

\* buf.write(s, offset, 'utf8') on a buffer of size bytes: the bytes of the
\* whole characters of s that fit between offset and the end of the buffer
\* are written, over whatever is there
WriteUtf8(s, offset, size) ==
    [bytes |-> Utf8(FittingChars(s, size - offset)), offset |-> offset]

\* the buffer after the writes, made in their order, on Buffer.alloc(size):
\* a byte is the one the last write that covers it put there
Written(size, writes) ==
    [i \in 1..size |->
        LET covering == { k \in DOMAIN writes :
                            /\ i > writes[k].offset
                            /\ i <= writes[k].offset + Len(writes[k].bytes) }
        IN  IF covering = {} THEN Alloc(size)[i]
            ELSE LET k == CHOOSE c \in covering : \A d \in covering : d <= c
                 IN  writes[k].bytes[i - writes[k].offset]]

\* createPumpFunInstruction, lines 1772-1821: the data buffer for name,
\* symbol and uri (`req.uri || ''`), the creator's key and the mode
createPumpFunInstructionData(r, creatorPub) ==
    LET nameLength == length(r.name)
        symbolLength == length(r.symbol)
        uriLength == length(r.uri)
        bufferSize == 8 + 4 + nameLength + 4 + symbolLength + 4 + uriLength + 32 + 1
        o1 == 8
        o2 == o1 + 4 + nameLength
        o3 == o2 + 4 + symbolLength
        o4 == o3 + 4 + uriLength
    IN  Written(bufferSize,
            << WriteBytes(Discriminator, 0),
               WriteBytes(UInt32LE(nameLength), o1),
               WriteUtf8(r.name, o1 + 4, bufferSize),
               WriteBytes(UInt32LE(symbolLength), o2),
               WriteUtf8(r.symbol, o2 + 4, bufferSize),
               WriteBytes(UInt32LE(uriLength), o3),
               WriteUtf8(r.uri, o3 + 4, bufferSize),
               WriteBytes(KeyBytes(creatorPub), o4),
               WriteBytes(UInt8(IF TruthyBool(r.mayhemMode) THEN 1 ELSE 0),
                          o4 + 32) >>)

\* the strings createPumpFunInstruction is given: all of them pass
\* validateRequest's length tests
EncodeRequests ==
    [ name : {<<CharA>>, <<CharA, CharA>>, <<CharEuro>>, <<CharA, CharGrin>>},
      symbol : {<<CharA>>, <<CharEuro>>, <<CharGrin>>},
      uri : {<<>>, <<CharA, CharA>>, <<CharEuro, CharA>>},
      mayhemMode : MayhemModeValues ]

\* a call of createPumpFunInstruction(tokenMint.publicKey, creatorKeypair, req)
InitEncode ==
    /\ op = "encode"
    /\ Serving
    /\ req \in EncodeRequests
    /\ pc = "e_encode"
    /\ creatorKeypair = <<CreatorKey>>
    /\ tokenMint \in MintKeys
    /\ tx = NoTx
    /\ latestBlockhash = 0
    /\ bhCounter = 0
    /\ db = <<>>
    /\ InitCommon

Init ==
    \/ InitPump \/ InitHttp \/ InitBonk \/ InitSubmit \/ InitStartup
    \/ InitMetadata \/ InitEncode

\* ------------------------------------------------------------- validation
\* TokenService.validateRequest: the message it throws, "" when it returns
\* (the test against Number.MAX_SAFE_INTEGER is beyond the amounts modelled)
validateRequest(r) ==
    IF r.nameLen = 0 \/ r.symbolLen = 0 \/ r.keyLen = 0
       \/ (r.uriLen = 0 /\ r.imageLen = 0)
    THEN "Missing required fields"
    ELSE IF r.nameLen > MaxNameLen THEN "Name must be 32 characters or less"
    ELSE IF r.symbolLen > MaxSymbolLen THEN "Symbol must be 8 characters or less"
    ELSE IF r.uriLen # 0 /\ r.uriLen > MaxUriLen THEN "URI must be 200 characters or less"
    ELSE IF r.imageLen # 0 /\ r.imageLen > MaxImageLen
    THEN "Image file must be less than 100MB for Filebase"
    ELSE IF TruthyStr(r.url) /\ ~urlPattern(r.url[1]) THEN "external_url must be a valid URL"
    ELSE IF TruthyNum(r.buyAmount) /\ r.buyAmount[1] <= 0
    THEN "buyAmount must be a positive number in lamports"
    ELSE ""

\* TokenService.getCreatorKeypair: the message it throws, "" when it returns
getCreatorKeypair(r) ==
    IF r.keyLen # SecretKeyLen THEN "Invalid creatorKeypair: must be 64 bytes" ELSE ""

\* the checks at the head of createBonkTokenTx
validateBonk(r) ==
    IF r.nameLen = 0 \/ r.symbolLen = 0 \/ r.imageLen = 0
    THEN "Missing required fields"
    ELSE IF r.nameLen > MaxNameLen THEN "Name must be 32 characters or less"
    ELSE IF r.symbolLen > MaxSymbolLen THEN "Symbol must be 8 characters or less"
    ELSE IF TruthyStr(r.url) /\ ~urlPattern(r.url[1]) THEN "website must be a valid URL"
    ELSE IF TruthyNum(r.decimals) /\ (r.decimals[1] < 0 \/ r.decimals[1] > MaxDecimals)
    THEN "Decimals must be a number between 0 and 9"
    ELSE ""

\* tokenData.decimals || 6
decimalsOrDefault(r) == IF TruthyNum(r.decimals) THEN r.decimals[1] ELSE DefaultDecimals

\* raydium.launchpad.createLaunchpad({mintA, decimals, uri, ...}): the create
\* instruction with the token's decimals
createLaunchpad(mintPub, creatorKp, u, decimals) ==
    [mint |-> mintPub, creator |-> PublicKey(creatorKp), uri |-> u,
     decimals |-> decimals]

\* ------------------------------------------------------- external outcomes
\* what the relay's HTTP call can end in (sendWithHelius)
RelayResponses == {"accepted", "rpc_error", "no_result", "transport", "timeout"}

\* the message sendWithHelius throws for a relay response
RelayError(r) ==
    CASE r = "rpc_error" -> "Helius Sender error"
      [] r = "no_result" -> "No result returned from Helius Sender"
      [] r = "transport" -> "relay transport error"
      [] r = "timeout" -> "timeout of 30000ms exceeded"
      [] OTHER -> ""

\* what confirmTransaction can observe for the signed version v of the
\* transaction: its execution status, which is fixed once observed, or an
\* exception (expiry, timeout, transport)
ConfirmOutcomes(v) ==
    IF v \in chainOk THEN {"ok", "throw"}
    ELSE IF v \in chainErr THEN {"err", "throw"}
    ELSE {"ok", "err", "throw"}

Observe(v, o) ==
    /\ chainOk' = IF o = "ok" THEN chainOk \cup {v} ELSE chainOk
    /\ chainErr' = IF o = "err" THEN chainErr \cup {v} ELSE chainErr

\* a submission as the log keeps it: the transaction's blockhash and
\* signatures as submitted, the number of blockhashes handed out until then,
\* the response, the confirmation status observed for it, the blockhash
\* fetched to confirm it with (0: none), and the blockhash each
\* confirmTransaction call for it was given (0: the call was given the
\* signature alone)
Submission(via, t, response) ==
    [via |-> via, bh |-> t.recentBlockhash, signed |-> t.signedBlockhash,
     signers |-> t.signers, fetched |-> bhCounter,
     accepted |-> response = "accepted", response |-> response, conf |-> "none",
     pair |-> 0, polls |-> <<>>]

\* `const latestBlockhash = await getLatestBlockhash('confirmed')` after a
\* submission: the pair held to confirm it with
HoldPair(s, b) == [s EXCEPT ![Len(s)].pair = b]

\* confirmTransaction called for the last submission with blockhash b
Polled(s, b) == [s EXCEPT ![Len(s)].polls = Append(@, b)]

\* the last submission's observed confirmation status
SetConf(s, o) == IF o = "throw" THEN s ELSE [s EXCEPT ![Len(s)].conf = o]

Count(field) == [calls EXCEPT ![field] = @ + 1]

\* a database call that threw
CountFailed(field) == [calls EXCEPT ![field] = @ + 1, !.dbError = @ + 1]

\* the message storeTokenData and updateTokenSignaturePumpfun throw
PersistenceError == "Failed to store token data"

\* the operation ends with outcome r; createPumpFunToken called by the route
\* handler returns into the handler
Finish(r) ==
    /\ pc' = IF op = "http" THEN "h_respond" ELSE "done"
    /\ result' = r

\* the failure outcome of the running operation: createPumpFunToken returns
\* {success: false, error}, createBonkTokenTx rethrows
Fail(msg) == Finish(IF op = "bonk" THEN Thrown(msg) ELSE Failure(msg))

\* the route handler's `const tokenData = {...req.body, mayhemMode: true}`
handlerTokenData(r) == [r EXCEPT !.mayhemMode = Some(TRUE)]

\* the argument createPumpFunToken is called with: the handler's tokenData,
\* or the caller's request
tokenData == IF op = "http" THEN handlerTokenData(req) ELSE req

\* ------------------------------------------------ createPumpFunToken
\* validateRequest(req); getCreatorKeypair(req.creatorKeypair)
PumpValidate ==
    /\ op \in PumpOps /\ pc = "start"
    /\ IF validateRequest(req) # ""
       THEN Fail(validateRequest(req)) /\ UNCHANGED creatorKeypair
       ELSE IF getCreatorKeypair(req) # ""
       THEN Fail(getCreatorKeypair(req)) /\ UNCHANGED creatorKeypair
       ELSE /\ creatorKeypair' = <<CreatorKey>>
            /\ pc' = "p_find"
            /\ UNCHANGED result
    /\ UNCHANGED <<env, server, others, stored>>
    /\ UNCHANGED <<errs, res, op, req, tokenMint, attempts, probe, uri, tx, latestBlockhash,
                   bhCounter, sim, signature, chainOk, chainErr, subs, attempt,
                   fbResult, db, calls>>

\* the four addresses findAvailableAccounts probes for a generated keypair
DerivedAccounts(kp) ==
    <<PublicKey(kp), BondingCurvePda(PublicKey(kp)),
      AssociatedBondingCurvePda(PublicKey(kp)), MetadataPda(PublicKey(kp))>>

\* the loop's test with the metadata account left out
AllUnoccupiedThree(p) == ~p[1] /\ ~p[2] /\ ~p[3]

\* the test that ends findAvailableAccounts' loop: no probe found an account
AllUnoccupied(p) == ~p[1] /\ ~p[2] /\ ~p[3] /\ ~p[4]

\* what the four getAccountInfo probes can report (TRUE: an account exists)
ProbeReports == { <<a, b, c, d>> : a \in BOOLEAN, b \in BOOLEAN, c \in BOOLEAN, d \in BOOLEAN }

\* findAvailableAccounts: one iteration of the loop. A key is generated,
\* its addresses are derived and probed together, and the key is returned
\* or dropped.
FindAttempt ==
    /\ op \in PumpOps /\ pc = "p_find"
    /\ attempts < maxAttempts
    /\ \E k \in MintKeys, p \in ProbeReports :
        /\ probe' = [mint |-> k, addrs |-> DerivedAccounts(k), occupied |-> p]
        /\ IF AllUnoccupied(p)
           THEN /\ tokenMint' = k
                /\ attempts' = 0
                /\ pc' = "p_upload"
           ELSE /\ attempts' = attempts + 1
                /\ UNCHANGED <<tokenMint, pc>>
    /\ UNCHANGED <<env, server, others, stored>>
    /\ UNCHANGED <<errs, res, op, req, creatorKeypair, uri, tx, latestBlockhash, bhCounter,
                   sim, signature, chainOk, chainErr, subs, attempt, fbResult,
                   db, calls, result>>

\* the message findAvailableAccounts throws when its loop runs out
AllocationError ==
    "Failed to find unused mint, bonding curve, or metadata accounts after maximum attempts"

\* findAvailableAccounts: a probe throws, or the loop ends without a key
FindFails ==
    /\ op \in PumpOps /\ pc = "p_find"
    /\ \/ /\ attempts < maxAttempts
          /\ \E k \in MintKeys :
                probe' = [mint |-> k, addrs |-> DerivedAccounts(k),
                          occupied |-> NoProbe.occupied]
          /\ Fail("getAccountInfo failed")
       \/ /\ attempts >= maxAttempts
          /\ UNCHANGED probe
          /\ Fail(AllocationError)
    /\ UNCHANGED <<env, server, others, stored>>
    /\ UNCHANGED <<errs, res, op, req, creatorKeypair, tokenMint, attempts, uri, tx,
                   latestBlockhash, bhCounter, sim, signature, chainOk, chainErr,
                   subs, attempt, fbResult, db, calls>>

\* this.filebaseService.uploadMetadata(req)
PumpUpload ==
    /\ op \in PumpOps /\ pc = "p_upload"
    /\ calls' = Count("upload")
    /\ \/ /\ \E h \in HashLens : uri' = UploadedUri(h)
          /\ stored' = StoredObject(uri', uploadMetadataDocument(UploadArgs(req)))
          /\ pc' = "p_blockhash"
          /\ UNCHANGED result
       \/ /\ Fail("Failed to upload to Filebase S3")
          /\ UNCHANGED <<uri, stored>>
    /\ UNCHANGED <<env, server, others>>
    /\ UNCHANGED <<errs, res, op, req, creatorKeypair, tokenMint, attempts, probe, tx,
                   latestBlockhash, bhCounter, sim, signature, chainOk, chainErr,
                   subs, attempt, fbResult, db>>

\* this.connection.getLatestBlockhash("confirmed")
PumpBlockhash ==
    /\ op \in PumpOps /\ pc = "p_blockhash"
    /\ calls' = Count("rpc")
    /\ \/ /\ bhCounter' = bhCounter + 1
          /\ latestBlockhash' = bhCounter + 1
          /\ pc' = "p_build"
          /\ UNCHANGED result
       \/ /\ Fail("failed to get recent blockhash")
          /\ UNCHANGED <<bhCounter, latestBlockhash>>
    /\ UNCHANGED <<env, server, others, stored>>
    /\ UNCHANGED <<errs, res, op, req, creatorKeypair, tokenMint, attempts, probe, uri, tx,
                   sim, signature, chainOk, chainErr, subs, attempt, fbResult, db>>

\* the transaction built over the newest blockhash the node has handed to
\* any operation, in place of the one this call fetched
PumpBuildNewestBlockhash ==
    /\ op \in PumpOps /\ pc = "p_build"
    /\ tx' = Sign(NewTransaction(
                    CreateInstruction(PublicKey(tokenMint), creatorKeypair[1],
                                      WithUri(tokenData, uri)),
                    creatorKeypair[1], bhCounter),
                  {tokenMint, creatorKeypair[1]})
    /\ pc' = "p_sim"
    /\ UNCHANGED <<env, server, others, stored>>
    /\ UNCHANGED <<errs, res, op, req, creatorKeypair, tokenMint, attempts, probe, uri,
                   latestBlockhash, bhCounter, sim, signature, chainOk, chainErr,
                   subs, attempt, fbResult, db, calls, result>>

\* createPumpFunInstruction(tokenMint.publicKey, creatorKeypair, {...req, uri});
\* the transaction is assembled and signed by the mint and the creator
PumpBuild ==
    /\ op \in PumpOps /\ pc = "p_build"
    /\ tx' = Sign(NewTransaction(
                    CreateInstruction(PublicKey(tokenMint), creatorKeypair[1],
                                      WithUri(tokenData, uri)),
                    creatorKeypair[1], latestBlockhash),
                  {tokenMint, creatorKeypair[1]})
    /\ pc' = "p_sim"
    /\ UNCHANGED <<env, server, others, stored>>
    /\ UNCHANGED <<errs, res, op, req, creatorKeypair, tokenMint, attempts, probe, uri,
                   latestBlockhash, bhCounter, sim, signature, chainOk, chainErr,
                   subs, attempt, fbResult, db, calls, result>>

\* this.connection.simulateTransaction(transaction); a simulation error is
\* thrown
PumpSimulate ==
    /\ op \in PumpOps /\ pc = "p_sim"
    /\ calls' = Count("simulate")
    /\ \/ /\ sim' = "ok"
          /\ pc' = "p_relay"
          /\ UNCHANGED result
       \/ /\ sim' = "err"
          /\ Fail("Transaction simulation failed")
       \/ /\ sim' = "none"
          /\ Fail("failed to simulate transaction")
    /\ UNCHANGED <<env, server, others, stored>>
    /\ UNCHANGED <<errs, res, op, req, creatorKeypair, tokenMint, attempts, probe, uri, tx,
                   latestBlockhash, bhCounter, signature, chainOk, chainErr, subs,
                   attempt, fbResult, db>>

\* what connection.sendRawTransaction can end in
DirectResponses == {"accepted", "rejected"}

\* createPumpFunToken's success value
PumpSuccess(sig, mintKp) ==
    [kind |-> "returned", success |-> TRUE, signature |-> sig,
     mintAddress |-> toBase58(PublicKey(mintKp)), error |-> ""]

\* sendWithHelius whose exception is not caught: a relay failure ends the
\* request
PumpRelaySendNoFallback ==
    /\ op \in PumpOps /\ pc = "p_relay"
    /\ tx' = Sign(tx, {tokenMint, creatorKeypair[1]})
    /\ calls' = Count("relay")
    /\ \E r \in RelayResponses :
        /\ subs' = Append(subs, Submission("relay", tx', r))
        /\ IF r = "accepted"
           THEN pc' = "p_relay_confirm" /\ UNCHANGED result
           ELSE Fail(RelayError(r))
    /\ UNCHANGED <<env, server, others, stored>>
    /\ UNCHANGED <<errs, res, op, req, creatorKeypair, tokenMint, attempts, probe, uri,
                   latestBlockhash, bhCounter, sim, signature, chainOk, chainErr,
                   attempt, fbResult, db>>

\* TokenService.sendWithHelius, up to the relay's response: the transaction
\* is signed again and posted; every response but an accepted one is thrown
\* and lands in createPumpFunToken's catch
PumpRelaySend ==
    /\ op \in PumpOps /\ pc = "p_relay"
    /\ tx' = Sign(tx, {tokenMint, creatorKeypair[1]})
    /\ calls' = Count("relay")
    /\ \E r \in RelayResponses :
        /\ subs' = Append(subs, Submission("relay", tx', r))
        /\ pc' = IF r = "accepted" THEN "p_relay_confirm" ELSE "p_direct"
    /\ UNCHANGED <<env, server, others, stored>>
    /\ UNCHANGED <<errs, res, op, req, creatorKeypair, tokenMint, attempts, probe, uri,
                   latestBlockhash, bhCounter, sim, signature, chainOk, chainErr,
                   attempt, fbResult, db, result>>

\* TokenService.sendWithHelius: confirmTransaction(signature, 'confirmed');
\* the status is logged and the signature returned whatever the status
PumpRelayConfirm ==
    /\ op \in PumpOps /\ pc = "p_relay_confirm"
    /\ calls' = Count("rpc")
    /\ \E o \in ConfirmOutcomes(tx.signedBlockhash) :
        /\ Observe(tx.signedBlockhash, o)
        /\ subs' = SetConf(Polled(subs, 0), o)
        /\ IF o = "throw"
           THEN pc' = "p_direct" /\ UNCHANGED signature
           ELSE pc' = "p_relay_bh" /\ signature' = SignatureOf(tx)
    /\ UNCHANGED <<env, server, others, stored>>
    /\ UNCHANGED <<errs, res, op, req, creatorKeypair, tokenMint, attempts, probe, uri, tx,
                   latestBlockhash, bhCounter, sim, attempt, fbResult, db, result>>

\* createPumpFunToken, relay branch: getLatestBlockhash('confirmed')
PumpRelayBlockhash ==
    /\ op \in PumpOps /\ pc = "p_relay_bh"
    /\ calls' = Count("rpc")
    /\ \/ /\ bhCounter' = bhCounter + 1
          /\ subs' = HoldPair(subs, bhCounter + 1)
          /\ pc' = "p_relay_confirm2"
       \/ /\ pc' = "p_direct"
          /\ UNCHANGED <<bhCounter, subs>>
    /\ UNCHANGED <<env, server, others, stored>>
    /\ UNCHANGED <<errs, res, op, req, creatorKeypair, tokenMint, attempts, probe, uri, tx,
                   latestBlockhash, sim, signature, chainOk, chainErr,
                   attempt, fbResult, db, result>>

\* createPumpFunToken, relay branch: confirmTransaction and the test of
\* confirmation.value.err; an error is thrown into the same catch
PumpRelayConfirm2 ==
    /\ op \in PumpOps /\ pc = "p_relay_confirm2"
    /\ calls' = Count("rpc")
    /\ \E o \in ConfirmOutcomes(tx.signedBlockhash) :
        /\ Observe(tx.signedBlockhash, o)
        /\ subs' = SetConf(Polled(subs, subs[Len(subs)].pair), o)
        /\ IF o = "ok"
           THEN Finish(PumpSuccess(signature, tokenMint))
           ELSE pc' = "p_direct" /\ UNCHANGED result
    /\ UNCHANGED <<env, server, others, stored>>
    /\ UNCHANGED <<errs, res, op, req, creatorKeypair, tokenMint, attempts, probe, uri, tx,
                   latestBlockhash, bhCounter, sim, signature, attempt, fbResult, db>>

\* createPumpFunToken, catch branch: sendRawTransaction(transaction.serialize())
PumpDirectSend ==
    /\ op \in PumpOps /\ pc = "p_direct"
    /\ calls' = Count("direct")
    /\ \E r \in DirectResponses :
        /\ subs' = Append(subs, Submission("direct", tx, r))
        /\ IF r = "accepted"
           THEN /\ signature' = SignatureOf(tx)
                /\ pc' = "p_direct_bh"
                /\ UNCHANGED result
           ELSE /\ Fail("failed to send transaction")
                /\ UNCHANGED signature
    /\ UNCHANGED <<env, server, others, stored>>
    /\ UNCHANGED <<errs, res, op, req, creatorKeypair, tokenMint, attempts, probe, uri, tx,
                   latestBlockhash, bhCounter, sim, chainOk, chainErr, attempt,
                   fbResult, db>>

\* createPumpFunToken, catch branch: getLatestBlockhash('confirmed')
PumpDirectBlockhash ==
    /\ op \in PumpOps /\ pc = "p_direct_bh"
    /\ calls' = Count("rpc")
    /\ \/ /\ bhCounter' = bhCounter + 1
          /\ subs' = HoldPair(subs, bhCounter + 1)
          /\ pc' = "p_direct_confirm"
          /\ UNCHANGED result
       \/ /\ Fail("failed to get recent blockhash")
          /\ UNCHANGED <<bhCounter, subs>>
    /\ UNCHANGED <<env, server, others, stored>>
    /\ UNCHANGED <<errs, res, op, req, creatorKeypair, tokenMint, attempts, probe, uri, tx,
                   latestBlockhash, sim, signature, chainOk, chainErr,
                   attempt, fbResult, db>>

\* createPumpFunToken, catch branch: confirmTransaction and the test of
\* confirmation.value.err; then the success value is returned
PumpDirectConfirm ==
    /\ op \in PumpOps /\ pc = "p_direct_confirm"
    /\ calls' = Count("rpc")
    /\ \E o \in ConfirmOutcomes(tx.signedBlockhash) :
        /\ Observe(tx.signedBlockhash, o)
        /\ subs' = SetConf(Polled(subs, subs[Len(subs)].pair), o)
        /\ IF o = "ok"
           THEN Finish(PumpSuccess(signature, tokenMint))
           ELSE IF o = "err"
           THEN Fail("Transaction failed")
           ELSE Fail("transaction was not confirmed")
    /\ UNCHANGED <<env, server, others, stored>>
    /\ UNCHANGED <<errs, res, op, req, creatorKeypair, tokenMint, attempts, probe, uri, tx,
                   latestBlockhash, bhCounter, sim, signature, attempt, fbResult, db>>

\* ------------------------------------------------------ createBonkTokenTx
\* the checks at the head of createBonkTokenTx
BonkValidate ==
    /\ op = "bonk" /\ pc = "start"
    /\ IF validateBonk(req) # ""
       THEN Fail(validateBonk(req))
       ELSE pc' = "b_upload" /\ UNCHANGED result
    /\ UNCHANGED <<env, server, others, stored>>
    /\ UNCHANGED <<errs, res, op, req, creatorKeypair, tokenMint, attempts, probe, uri, tx,
                   latestBlockhash, bhCounter, sim, signature, chainOk, chainErr,
                   subs, attempt, fbResult, db, calls>>

\* createBonkFunTokenMetadata(tokenData)
BonkUpload ==
    /\ op = "bonk" /\ pc = "b_upload"
    /\ calls' = Count("upload")
    /\ \/ /\ \E h \in HashLens : uri' = UploadedUri(h)
          /\ stored' = StoredObject(uri', createBonkFunTokenMetadataDocument(UploadArgs(req)))
          /\ pc' = "b_config"
          /\ UNCHANGED result
       \/ /\ Fail("Failed to upload to Filebase")
          /\ UNCHANGED <<uri, stored>>
    /\ UNCHANGED <<env, server, others>>
    /\ UNCHANGED <<errs, res, op, req, creatorKeypair, tokenMint, attempts, probe, tx,
                   latestBlockhash, bhCounter, sim, signature, chainOk, chainErr,
                   subs, attempt, fbResult, db>>

\* initSdk, the launchpad config account, createLaunchpad
BonkConfig ==
    /\ op = "bonk" /\ pc = "b_config"
    /\ calls' = Count("rpc")
    /\ \/ /\ pc' = "b_blockhash"
          /\ UNCHANGED result
       \/ Fail("Config not found")
    /\ UNCHANGED <<env, server, others, stored>>
    /\ UNCHANGED <<errs, res, op, req, creatorKeypair, tokenMint, attempts, probe, uri, tx,
                   latestBlockhash, bhCounter, sim, signature, chainOk, chainErr,
                   subs, attempt, fbResult, db>>

\* connection.getLatestBlockhash(); the versioned transaction is compiled
\* from the launchpad instructions and signed by mainKp and mintKp
BonkBlockhash ==
    /\ op = "bonk" /\ pc = "b_blockhash"
    /\ calls' = Count("rpc")
    /\ \/ /\ bhCounter' = bhCounter + 1
          /\ latestBlockhash' = bhCounter + 1
          /\ tx' = Sign(NewTransaction(
                          createLaunchpad(PublicKey(tokenMint), creatorKeypair[1], uri,
                                          decimalsOrDefault(req)),
                          creatorKeypair[1], bhCounter + 1),
                        {creatorKeypair[1], tokenMint})
          /\ pc' = "b_sim"
          /\ UNCHANGED result
       \/ /\ Fail("failed to get recent blockhash")
          /\ UNCHANGED <<bhCounter, latestBlockhash, tx>>
    /\ UNCHANGED <<env, server, others, stored>>
    /\ UNCHANGED <<errs, res, op, req, creatorKeypair, tokenMint, attempts, probe, uri,
                   sim, signature, chainOk, chainErr, subs, attempt, fbResult, db>>

\* connection.simulateTransaction(transaction, {sigVerify: true}); the
\* result is logged and not examined
BonkSimulate ==
    /\ op = "bonk" /\ pc = "b_sim"
    /\ calls' = Count("simulate")
    /\ \/ /\ sim' \in {"ok", "err"}
          /\ pc' = "b_relay"
          /\ UNCHANGED result
       \/ /\ sim' = "none"
          /\ Fail("failed to simulate transaction")
    /\ UNCHANGED <<env, server, others, stored>>
    /\ UNCHANGED <<errs, res, op, req, creatorKeypair, tokenMint, attempts, probe, uri, tx,
                   latestBlockhash, bhCounter, signature, chainOk, chainErr, subs,
                   attempt, fbResult, db>>

\* sendWithHelius (module level), up to the relay's response
BonkRelaySend ==
    /\ op = "bonk" /\ pc = "b_relay"
    /\ calls' = Count("relay")
    /\ \E r \in RelayResponses :
        /\ subs' = Append(subs, Submission("relay", tx, r))
        /\ pc' = IF r = "accepted" THEN "b_relay_confirm" ELSE "b_direct"
    /\ UNCHANGED <<env, server, others, stored>>
    /\ UNCHANGED <<errs, res, op, req, creatorKeypair, tokenMint, attempts, probe, uri, tx,
                   latestBlockhash, bhCounter, sim, signature, chainOk, chainErr,
                   attempt, fbResult, db, result>>

\* sendWithHelius (module level): connection.confirmTransaction; the status
\* is logged and the signature returned whatever the status
BonkRelayConfirm ==
    /\ op = "bonk" /\ pc = "b_relay_confirm"
    /\ calls' = Count("rpc")
    /\ \E o \in ConfirmOutcomes(tx.signedBlockhash) :
        /\ Observe(tx.signedBlockhash, o)
        /\ subs' = SetConf(Polled(subs, 0), o)
        /\ IF o = "throw"
           THEN pc' = "b_direct" /\ UNCHANGED signature
           ELSE pc' = "b_store" /\ signature' = SignatureOf(tx)
    /\ UNCHANGED <<env, server, others, stored>>
    /\ UNCHANGED <<errs, res, op, req, creatorKeypair, tokenMint, attempts, probe, uri, tx,
                   latestBlockhash, bhCounter, sim, attempt, fbResult, db, result>>

\* createBonkTokenTx, catch branch: connection.sendRawTransaction
BonkDirectSend ==
    /\ op = "bonk" /\ pc = "b_direct"
    /\ calls' = Count("direct")
    /\ \E r \in DirectResponses :
        /\ subs' = Append(subs, Submission("direct", tx, r))
        /\ IF r = "accepted"
           THEN pc' = "b_direct_confirm" /\ UNCHANGED result
           ELSE Fail("failed to send transaction")
    /\ UNCHANGED <<env, server, others, stored>>
    /\ UNCHANGED <<errs, res, op, req, creatorKeypair, tokenMint, attempts, probe, uri, tx,
                   latestBlockhash, bhCounter, sim, signature, chainOk, chainErr,
                   attempt, fbResult, db>>

\* createBonkTokenTx, catch branch: connection.confirmTransaction(txid);
\* only the slot is read; signature = txid
BonkDirectConfirm ==
    /\ op = "bonk" /\ pc = "b_direct_confirm"
    /\ calls' = Count("rpc")
    /\ \E o \in ConfirmOutcomes(tx.signedBlockhash) :
        /\ Observe(tx.signedBlockhash, o)
        /\ subs' = SetConf(Polled(subs, 0), o)
        /\ IF o = "throw"
           THEN Fail("transaction was not confirmed") /\ UNCHANGED signature
           ELSE /\ pc' = "b_store"
                /\ signature' = SignatureOf(tx)
                /\ UNCHANGED result
    /\ UNCHANGED <<env, server, others, stored>>
    /\ UNCHANGED <<errs, res, op, req, creatorKeypair, tokenMint, attempts, probe, uri, tx,
                   latestBlockhash, bhCounter, sim, attempt, fbResult, db>>

\* the token table is keyed by the mint address: a row with the key exists
KeyTaken(table, mintB58) == \E i \in DOMAIN table : table[i].tokenMint = mintB58

\* a record keyed by the creator's address
BonkRecordOfCreator(mintKp, sig, decimals) ==
    [tokenMint |-> toBase58(PublicKey(CreatorKey)), signature |-> EmptySignature,
     status |-> "active", decimals |-> decimals]

\* the record storeTokenData (module level) creates for createBonkTokenTx
BonkRecord(mintKp, sig, decimals) ==
    [tokenMint |-> toBase58(PublicKey(mintKp)), signature |-> EmptySignature,
     status |-> "active", decimals |-> decimals]

\* createBonkTokenTx's return value: the transaction, read here as its
\* signature and the mint of its create instruction
BonkSuccess(t) ==
    [kind |-> "returned", success |-> TRUE, signature |-> SignatureOf(t),
     mintAddress |-> toBase58(t.ix.mint), error |-> ""]

\* storeTokenData({..., signature: "", ...}); return transaction. The insert
\* is refused when the key exists, and can fail for any other reason.
BonkStore ==
    /\ op = "bonk" /\ pc = "b_store"
    /\ \/ /\ ~KeyTaken(db, BonkRecord(tokenMint, signature, decimalsOrDefault(req)).tokenMint)
          /\ calls' = Count("dbCreate")
          /\ db' = Append(db, BonkRecord(tokenMint, signature, decimalsOrDefault(req)))
          /\ Finish(BonkSuccess(tx))
       \/ /\ calls' = CountFailed("dbCreate")
          /\ Fail(PersistenceError)
          /\ UNCHANGED db
    /\ UNCHANGED <<env, server, others, stored>>
    /\ UNCHANGED <<errs, res, op, req, creatorKeypair, tokenMint, attempts, probe, uri, tx,
                   latestBlockhash, bhCounter, sim, signature, chainOk, chainErr,
                   subs, attempt, fbResult>>

\* the next call of createBonkTokenTx, made after the last one has ended:
\* another request and mint keypair, the same token table. The ledger
\* observations kept are those of the running call's transaction.
BonkNextCall ==
    /\ op = "bonk" /\ pc = "done"
    /\ Len(db) < MaxRecords
    /\ req' \in { r \in PlainLaunchpadRequests : r.decimals = Undefined }
    /\ tokenMint' \in MintKeys
    /\ pc' = "start"
    /\ uri' = NoUri
    /\ tx' = NoTx
    /\ latestBlockhash' = 0
    /\ bhCounter' = 0
    /\ sim' = "none"
    /\ signature' = EmptySignature
    /\ chainOk' = {}
    /\ chainErr' = {}
    /\ subs' = <<>>
    /\ calls' = NoCalls
    /\ result' = NoResult
    /\ stored' = NoObject
    /\ UNCHANGED <<env, server, others>>
    /\ UNCHANGED <<op, creatorKeypair, attempts, probe, attempt, fbResult, db,
                   res, errs>>

BonkNext ==
    \/ BonkValidate \/ BonkUpload \/ BonkConfig \/ BonkBlockhash \/ BonkSimulate
    \/ BonkRelaySend \/ BonkRelayConfirm \/ BonkDirectSend \/ BonkDirectConfirm
    \/ BonkStore \/ BonkNextCall

\* ------------------------- submitTransaction / fallbackDirectSubmission
\* what jitoBundler.executeAndConfirm can end in
JitoResponses == {"confirmed", "confirmed_no_signature", "failed", "throw"}

\* fallbackDirectSubmission's initial result
InitialFbResult == [confirmed |-> FALSE, signature |-> EmptySignature,
                    error |-> "Direct submission failed"]

\* where the loop `for (attempt = 1; attempt <= maxRetries; attempt++)`
\* goes with its counter at a: out of the loop, to the blockhash refresh of
\* a retry, or to the first submission
LoopPc(a) ==
    IF a > maxRetries THEN "s_return"
    ELSE IF a > 1 THEN "f_fetch" ELSE "f_send"

\* a catch that leaves the error of the result as it was
CaughtKeepsError(prev, msg) ==
    [confirmed |-> FALSE, signature |-> prev.signature, error |-> prev.error]

\* the result the catch of an attempt assigns: the exception's message, and
\* the signature of the result so far
Caught(prev, msg) ==
    [confirmed |-> FALSE, signature |-> prev.signature, error |-> msg]

\* the message of the result assigned when a confirmation carries an error
ExecutionError == "Direct submission failed: execution error"

\* a retry that signs before it sets the new blockhash
RefreshSignFirst(t, b, keypairs) == SetBlockhash(Sign(t, keypairs), b)

\* a retry's preparation: transaction.recentBlockhash = newBlockhash.blockhash;
\* transaction.sign(tokenMint, creatorKeypair)
Refresh(t, b, keypairs) == Sign(SetBlockhash(t, b), keypairs)

\* PumpfunTokens.update({signature}, {where: {tokenMint}})
\* the update with the where clause left out: every row gets the signature
UpdateSignatureEveryRow(table, mintB58, sig) ==
    [i \in DOMAIN table |-> [table[i] EXCEPT !.signature = sig]]

UpdateSignature(table, mintB58, sig) ==
    [i \in DOMAIN table |->
        IF table[i].tokenMint = mintB58
        THEN [table[i] EXCEPT !.signature = sig]
        ELSE table[i]]

\* submitTransaction: jitoBundler.executeAndConfirm(...). A result that is
\* not confirmed, and an exception, both lead to fallbackDirectSubmission.
SubmitJito ==
    /\ op = "submit" /\ pc = "s_jito"
    /\ calls' = Count("relay")
    /\ \E r \in JitoResponses :
        /\ subs' = Append(subs,
                     [Submission("relay", tx, IF r \in {"confirmed", "confirmed_no_signature"}
                                              THEN "accepted" ELSE r)
                        EXCEPT !.conf = IF r \in {"confirmed", "confirmed_no_signature"}
                                        THEN "ok" ELSE "none"])
        /\ CASE r = "confirmed" ->
                  /\ fbResult' = [confirmed |-> TRUE, signature |-> SignatureOf(tx), error |-> ""]
                  /\ chainOk' = chainOk \cup {tx.signedBlockhash}
                  /\ pc' = "s_update"
                  /\ UNCHANGED attempt
             [] r = "confirmed_no_signature" ->
                  /\ fbResult' = [confirmed |-> TRUE, signature |-> EmptySignature, error |-> ""]
                  /\ chainOk' = chainOk \cup {tx.signedBlockhash}
                  /\ pc' = "s_return"
                  /\ UNCHANGED attempt
             [] OTHER ->
                  /\ fbResult' = InitialFbResult
                  /\ attempt' = 1
                  /\ pc' = LoopPc(1)
                  /\ UNCHANGED chainOk
    /\ UNCHANGED <<env, server, others, stored>>
    /\ UNCHANGED <<errs, res, op, req, creatorKeypair, tokenMint, attempts, probe, uri, tx,
                   latestBlockhash, bhCounter, sim, signature, chainErr, db, result>>

\* submitTransaction: updateTokenSignaturePumpfun(mint, result.signature)
\* inside the try; its exception is caught as a Jito error
SubmitUpdate ==
    /\ op = "submit" /\ pc = "s_update"
    /\ \/ /\ calls' = Count("dbUpdate")
          /\ db' = UpdateSignature(db, toBase58(PublicKey(tokenMint)), fbResult.signature)
          /\ pc' = "s_return"
          /\ UNCHANGED <<fbResult, attempt>>
       \/ /\ calls' = CountFailed("dbUpdate")
          /\ fbResult' = InitialFbResult
          /\ attempt' = 1
          /\ pc' = LoopPc(1)
          /\ UNCHANGED db
    /\ UNCHANGED <<env, server, others, stored>>
    /\ UNCHANGED <<errs, res, op, req, creatorKeypair, tokenMint, attempts, probe, uri, tx,
                   latestBlockhash, bhCounter, sim, signature, chainOk, chainErr,
                   subs, result>>

\* fallbackDirectSubmission, attempt > 1: getLatestBlockhash("confirmed"),
\* then the blockhash is set and the transaction signed again; an exception
\* is caught and ends the attempt
FallbackFetch ==
    /\ op = "submit" /\ pc = "f_fetch"
    /\ calls' = Count("rpc")
    /\ \/ /\ bhCounter' = bhCounter + 1
          /\ tx' = Refresh(tx, bhCounter + 1, {tokenMint, creatorKeypair[1]})
          /\ pc' = "f_send"
          /\ UNCHANGED <<fbResult, attempt, errs>>
       \/ /\ fbResult' = Caught(fbResult, "failed to get recent blockhash")
          /\ errs' = Append(errs, "failed to get recent blockhash")
          /\ attempt' = attempt + 1
          /\ pc' = LoopPc(attempt + 1)
          /\ UNCHANGED <<bhCounter, tx>>
    /\ UNCHANGED <<env, server, others, stored>>
    /\ UNCHANGED <<res, op, req, creatorKeypair, tokenMint, attempts, probe, uri,
                   latestBlockhash, sim, signature, chainOk, chainErr, subs, db,
                   result>>

\* fallbackDirectSubmission: sendRawTransaction(transaction.serialize())
FallbackSend ==
    /\ op = "submit" /\ pc = "f_send"
    /\ calls' = Count("direct")
    /\ \E r \in DirectResponses :
        /\ subs' = Append(subs, Submission("direct", tx, r))
        /\ IF r = "accepted"
           THEN /\ signature' = SignatureOf(tx)
                /\ pc' = "f_confirm"
                /\ UNCHANGED <<fbResult, attempt, errs>>
           ELSE /\ fbResult' = Caught(fbResult, "failed to send transaction")
                /\ errs' = Append(errs, "failed to send transaction")
                /\ attempt' = attempt + 1
                /\ pc' = LoopPc(attempt + 1)
                /\ UNCHANGED signature
    /\ UNCHANGED <<env, server, others, stored>>
    /\ UNCHANGED <<res, op, req, creatorKeypair, tokenMint, attempts, probe, uri, tx,
                   latestBlockhash, bhCounter, sim, chainOk, chainErr, db, result>>

\* fallbackDirectSubmission: confirmTransaction; a confirmation without
\* error returns, one with an error or an exception ends the attempt
FallbackConfirm ==
    /\ op = "submit" /\ pc = "f_confirm"
    /\ calls' = Count("rpc")
    /\ \E o \in ConfirmOutcomes(tx.signedBlockhash) :
        /\ Observe(tx.signedBlockhash, o)
        /\ subs' = SetConf(Polled(subs, latestBlockhash), o)
        /\ CASE o = "ok" ->
                  /\ fbResult' = [confirmed |-> TRUE, signature |-> signature, error |-> ""]
                  /\ pc' = "s_return"
                  /\ UNCHANGED <<attempt, errs>>
             [] o = "err" ->
                  /\ fbResult' = [confirmed |-> FALSE, signature |-> signature,
                                  error |-> ExecutionError]
                  /\ errs' = Append(errs, ExecutionError)
                  /\ attempt' = attempt + 1
                  /\ pc' = LoopPc(attempt + 1)
             [] OTHER ->
                  /\ fbResult' = Caught(fbResult, "transaction was not confirmed")
                  /\ errs' = Append(errs, "transaction was not confirmed")
                  /\ attempt' = attempt + 1
                  /\ pc' = LoopPc(attempt + 1)
    /\ UNCHANGED <<env, server, others, stored>>
    /\ UNCHANGED <<res, op, req, creatorKeypair, tokenMint, attempts, probe, uri, tx,
                   latestBlockhash, bhCounter, sim, signature, db, result>>

\* submitTransaction's return value
SubmitReturn ==
    /\ op = "submit" /\ pc = "s_return"
    /\ Finish([kind |-> "returned", success |-> fbResult.confirmed,
               signature |-> fbResult.signature,
               mintAddress |-> toBase58(PublicKey(tokenMint)),
               error |-> fbResult.error])
    /\ UNCHANGED <<env, server, others, stored>>
    /\ UNCHANGED <<errs, res, op, req, creatorKeypair, tokenMint, attempts, probe, uri, tx,
                   latestBlockhash, bhCounter, sim, signature, chainOk, chainErr,
                   subs, attempt, fbResult, db, calls>>

SubmitNext ==
    \/ SubmitJito \/ SubmitUpdate \/ FallbackFetch \/ FallbackSend
    \/ FallbackConfirm \/ SubmitReturn

\* ------------------------------------ POST /pumpfun/create-token handler
\* the handler's own checks: the message of the 400 response, "" when the
\* request passes
handlerValidate(r) ==
    IF r.nameLen = 0 \/ r.symbolLen = 0 \/ r.keyLen = 0
       \/ (r.uriLen = 0 /\ r.imageLen = 0)
    THEN "Missing required fields: name, symbol, creatorKeypair, and either uri or image file"
    ELSE IF r.nameLen > MaxNameLen THEN "Name must be 32 characters or less"
    ELSE IF r.symbolLen > MaxSymbolLen THEN "Symbol must be 8 characters or less"
    ELSE IF r.uriLen # 0 /\ r.uriLen > MaxUriLen THEN "URI must be 200 characters or less"
    ELSE IF TruthyNum(r.buyAmount) /\ r.buyAmount[1] <= 0
    THEN "buyAmount must be a positive number"
    ELSE ""

\* an error response that reports success
ErrorResponseAsSuccess(code, msg) ==
    [status |-> 200, success |-> TRUE, error |-> msg, signature |-> NoResult]

\* res.status(code).json({error})
ErrorResponse(code, msg) ==
    [status |-> code, success |-> FALSE, error |-> msg, signature |-> NoResult]

\* res.json({success: true, signature: result}): the whole result object is
\* sent in the signature field
SuccessResponse(r) ==
    [status |-> 200, success |-> TRUE, error |-> "", signature |-> r]

\* the handler up to the call of tokenService.createPumpFunToken(tokenData)
HandlerValidate ==
    /\ op = "http" /\ pc = "h_validate"
    /\ IF handlerValidate(req) # ""
       THEN /\ res' = ErrorResponse(400, handlerValidate(req))
            /\ pc' = "done"
       ELSE /\ pc' = "start"
            /\ UNCHANGED res
    /\ UNCHANGED <<env, server, others, stored>>
    /\ UNCHANGED <<errs, op, req, creatorKeypair, tokenMint, attempts, probe, uri,
                   tx, latestBlockhash, bhCounter, sim, signature, chainOk,
                   chainErr, subs, attempt, fbResult, db, calls, result>>

\* the handler after createPumpFunToken has returned
HandlerRespond ==
    /\ op = "http" /\ pc = "h_respond"
    /\ res' = IF result.success
                   THEN SuccessResponse(result)
                   ELSE ErrorResponse(500, IF result.error # "" THEN result.error
                                           ELSE "Token creation failed")
    /\ pc' = "done"
    /\ UNCHANGED <<env, server, others, stored>>
    /\ UNCHANGED <<errs, op, req, creatorKeypair, tokenMint, attempts, probe, uri,
                   tx, latestBlockhash, bhCounter, sim, signature, chainOk,
                   chainErr, subs, attempt, fbResult, db, calls, result>>

HttpNext == HandlerValidate \/ HandlerRespond

\* ------------------------------------------------------ process startup
\* FilebaseService's constructor: the message it throws, "" when it returns
FilebaseServiceConstructor(e) ==
    IF ~e.FILEBASE_API_KEY \/ ~e.FILEBASE_API_SECRET
    THEN "FILEBASE_API_KEY and FILEBASE_API_SECRET are required in .env"
    ELSE ""

\* TokenService's constructor: a missing HELIUS_API_KEY is replaced by a
\* built-in key, then a FilebaseService is constructed
TokenServiceConstructor(e) == FilebaseServiceConstructor(e)

\* the modules imported by src/index.ts are evaluated: the launchpad module
\* reads HELIUS_API_KEY with '' as default and constructs a FilebaseService,
\* the route module constructs the TokenService. An exception ends the
\* process before startServer is called.
StartupLoad ==
    /\ op = "startup" /\ pc = "boot"
    /\ IF FilebaseServiceConstructor(env) # "" \/ TokenServiceConstructor(env) # ""
       THEN server' = "crashed" /\ pc' = "done"
       ELSE pc' = "db_test" /\ UNCHANGED server
    /\ UNCHANGED <<op, req, creatorKeypair, tokenMint, attempts, probe, uri, tx,
                   latestBlockhash, bhCounter, sim, signature, chainOk, chainErr,
                   subs, attempt, fbResult, db, calls, result, res, errs, env,
                   others, stored>>

\* startServer with the result of testConnection() not looked at
StartupTestConnectionIgnored ==
    /\ op = "startup" /\ pc = "db_test"
    /\ \E isConnected \in {"true", "false", "throw"} :
          IF isConnected = "true"
          THEN pc' = "listen" /\ server' = "connected"
          ELSE pc' = "listen" /\ UNCHANGED server
    /\ UNCHANGED <<op, req, creatorKeypair, tokenMint, attempts, probe, uri, tx,
                   latestBlockhash, bhCounter, sim, signature, chainOk, chainErr,
                   subs, attempt, fbResult, db, calls, result, res, errs, env,
                   others, stored>>

\* startServer: testConnection(); the process exits with code 1 when the
\* database is not connected or the test throws ("exited"), and goes on to
\* listen when it returned true ("connected")
StartupTestConnection ==
    /\ op = "startup" /\ pc = "db_test"
    /\ \E isConnected \in {"true", "false", "throw"} :
          IF isConnected = "true"
          THEN pc' = "listen" /\ server' = "connected"
          ELSE server' = "exited" /\ pc' = "done"
    /\ UNCHANGED <<op, req, creatorKeypair, tokenMint, attempts, probe, uri, tx,
                   latestBlockhash, bhCounter, sim, signature, chainOk, chainErr,
                   subs, attempt, fbResult, db, calls, result, res, errs, env,
                   others, stored>>

\* app.listen(PORT)
StartupListen ==
    /\ op = "startup" /\ pc = "listen"
    /\ server' = "serving"
    /\ pc' = "done"
    /\ UNCHANGED <<op, req, creatorKeypair, tokenMint, attempts, probe, uri, tx,
                   latestBlockhash, bhCounter, sim, signature, chainOk, chainErr,
                   subs, attempt, fbResult, db, calls, result, res, errs, env,
                   others, stored>>

StartupNext == StartupLoad \/ StartupTestConnection \/ StartupListen

\* ------------------------------------ createPumpFunInstruction as a call
\* the instruction createPumpFunInstruction returns, with its data
EncodeInstruction ==
    /\ op = "encode" /\ pc = "e_encode"
    /\ length(req.name) <= MaxNameLen /\ length(req.symbol) <= MaxSymbolLen
    /\ length(req.uri) <= MaxUriLen
    /\ tx' = [NoTx EXCEPT !.ix =
                [mint |-> PublicKey(tokenMint),
                 creator |-> PublicKey(creatorKeypair[1]),
                 uri |-> [len |-> length(req.uri), from |-> "request"],
                 mayhemMode |-> IF TruthyBool(req.mayhemMode) THEN 1 ELSE 0,
                 accounts |-> InstructionAccounts(PublicKey(tokenMint)),
                 data |-> createPumpFunInstructionData(
                             req, PublicKey(creatorKeypair[1]))]]
    /\ pc' = "done"
    /\ UNCHANGED <<env, server, others, stored>>
    /\ UNCHANGED <<errs, res, op, req, creatorKeypair, tokenMint, attempts, probe, uri,
                   latestBlockhash, bhCounter, sim, signature, chainOk, chainErr,
                   subs, attempt, fbResult, db, calls, result>>

\* ------------------------------------------------- the metadata round trip
\* the response to a GET of the address: the document parsed from the bytes
Fetched(doc) == [status |-> 200, document |-> doc]

\* filebaseService.uploadMetadata(req): the image and the document are
\* uploaded, or an upload throws
MetadataUpload ==
    /\ op = "metadata" /\ pc = "m_upload"
    /\ calls' = Count("upload")
    /\ \/ /\ \E h \in HashLens : uri' = UploadedUri(h)
          /\ stored' = StoredObject(uri', uploadMetadataDocument(req))
          /\ pc' = "m_fetch"
          /\ UNCHANGED result
       \/ /\ Fail("Failed to upload to Filebase S3")
          /\ UNCHANGED <<uri, stored>>
    /\ UNCHANGED <<env, server, others>>
    /\ UNCHANGED <<errs, res, op, req, creatorKeypair, tokenMint, attempts, probe, tx,
                   latestBlockhash, bhCounter, sim, signature, chainOk, chainErr,
                   subs, attempt, fbResult, db>>

\* GET of the returned address and JSON.parse of the body
MetadataFetch ==
    /\ op = "metadata" /\ pc = "m_fetch"
    /\ stored.uri = uri
    /\ res' = Fetched(Parse(stored.body))
    /\ pc' = "done"
    /\ UNCHANGED <<env, server, others, stored>>
    /\ UNCHANGED <<errs, op, req, creatorKeypair, tokenMint, attempts, probe, uri,
                   tx, latestBlockhash, bhCounter, sim, signature, chainOk, chainErr,
                   subs, attempt, fbResult, db, calls, result>>

MetadataNext == MetadataUpload \/ MetadataFetch

PumpNext ==
    \/ PumpValidate \/ FindAttempt \/ FindFails \/ PumpUpload \/ PumpBlockhash
    \/ PumpBuild \/ PumpSimulate \/ PumpRelaySend \/ PumpRelayConfirm
    \/ PumpRelayBlockhash \/ PumpRelayConfirm2 \/ PumpDirectSend
    \/ PumpDirectBlockhash \/ PumpDirectConfirm

\* the steps of the operations that serve requests and of process startup
ServiceNext == PumpNext \/ HttpNext \/ BonkNext \/ SubmitNext \/ StartupNext

Next == ServiceNext \/ MetadataNext \/ EncodeInstruction

Spec == Init /\ [][Next]_vars

\* the operations followed under fairness and next to other operations:
\* every outcome of validation, with the optional fields that no later step
\* reads left out
PlainInit == Init /\ req \in PlainRequests \cup PlainLaunchpadRequests

\* ------------------------------------------- other operations at the same time
\* tokenService is one object shared by every request, and Node runs another
\* request's steps whenever this one waits at an await. Everything a request
\* works with (mint key, creator key, uri, blockhash, transaction, attempt
\* counter) is a parameter or a const/let of its own call, and the fields of
\* the shared object (connection, programId, heliusApiKey, jitoEndpoint) are
\* assigned in the constructor only: what another operation's step can
\* change is the node's state and the table, never this operation's
\* variables.

\* the mint key of another operation (Keypair.generate() of its own call)
OtherMint == MaxMintKeys + 1

\* a step of another operation: it is handed the node's next blockhash, and
\* it may store the record of its own mint. Its transactions carry its own
\* mint and blockhash, so they are no version of this operation's
\* transaction (chainOk, chainErr)
Interfere ==
    /\ op # "startup"
    /\ Cardinality(others) < MaxOthers
    /\ bhCounter' = bhCounter + 1
    /\ others' = others \cup {bhCounter + 1}
    /\ \/ /\ ~KeyTaken(db, toBase58(PublicKey(OtherMint)))
          /\ db' = Append(db, PendingRecord(OtherMint))
       \/ UNCHANGED db
    /\ UNCHANGED <<env, server, stored>>
    /\ UNCHANGED <<errs, res, op, pc, req, creatorKeypair, tokenMint, attempts, probe,
                   uri, latestBlockhash, tx, sim, signature, chainOk, chainErr,
                   subs, attempt, fbResult, calls, result>>

ConcNext == ServiceNext \/ Interfere

\* an operation followed while other operations take steps between its own
ConcSpec == PlainInit /\ [][ConcNext]_vars

\* every awaited call returns or throws: an operation that can take a step
\* eventually takes one
FairSpec == PlainInit /\ [][ServiceNext]_vars /\ WF_vars(ServiceNext)

\* ------------------------------------------------------------ properties
Done == pc = "done"
Succeeded == Done /\ result.success

\* the direct submissions made, in order
DirectSubs == SelectSeq(subs, LAMBDA e : e.via = "direct")

\* a submission was accepted and observed confirmed without execution error
ConfirmedOk(e) == e.accepted /\ e.conf = "ok"

\* a relay submission was made and failed at the relay
RelayFailed == Len(subs) >= 1 /\ subs[1].via = "relay" /\ ~subs[1].accepted

\* no external call has been made for the request
NoNetworkCall ==
    /\ calls = NoCalls
    /\ attempts = 0
    /\ probe = NoProbe
    /\ subs = <<>>
    /\ db = <<>>

\* C1: on both platform paths, once simulation has returned an error no
\* relay submission and no direct broadcast is made for the request, and the
\* request does not succeed.
C1_NoBroadcastAfterSimulationError ==
    (op \in {"pump", "bonk"} /\ sim = "err") =>
        /\ calls.relay = 0
        /\ calls.direct = 0
        /\ ~Succeeded

\* C2: an operation reports success only if simulation was clean and its
\* last submission was accepted and observed confirmed without execution
\* error; a submission confirmed with an execution error is never reported
\* as success.
C2_SuccessOnlyIfConfirmedWithoutError ==
    Succeeded =>
        /\ op \in {"pump", "bonk"} => sim = "ok"
        /\ Len(subs) >= 1
        /\ ConfirmedOk(subs[Len(subs)])

\* C3: on the pump path every kind of relay failure is followed by a direct
\* broadcast (on the launchpad path too); a direct broadcast confirmed
\* without error makes the request succeed; and the relay's error is the
\* reported error only if the direct broadcast failed as well.
C3_RelayFailureFallsBack ==
    (op \in {"pump", "bonk"} /\ RelayFailed) =>
        /\ pc \in {"p_direct", "b_direct"} \/ (Len(subs) >= 2 /\ subs[2].via = "direct")
        /\ (op = "pump" /\ Done /\ ConfirmedOk(subs[Len(subs)])) => result.success
        /\ (Done /\ result.error = RelayError(subs[1].response)) =>
              (Len(subs) >= 2 /\ ~ConfirmedOk(subs[2]))

\* C3 witness: the relay call timed out, the direct broadcast was confirmed
\* without error, and the request succeeded
C3_Witness ==
    /\ op = "pump" /\ Succeeded
    /\ Len(subs) = 2
    /\ subs[1].response = "timeout"
    /\ subs[2].via = "direct" /\ ConfirmedOk(subs[2])

\* C4 (state part): at most 3 direct broadcasts are made for a request, and
\* a finished request all of whose direct broadcasts failed after a relay
\* failure is a failure (pump path and submitTransaction)
C4_Cap ==
    /\ calls.direct <= 3
    /\ Len(DirectSubs) = calls.direct
    /\ (/\ op \in {"pump", "submit"} /\ Done
        /\ Len(DirectSubs) >= 1
        /\ \A i \in 1..Len(DirectSubs) : ~ConfirmedOk(DirectSubs[i]))
       => ~result.success

\* C4: direct broadcasts never exceed 3 per request, a request whose direct
\* broadcasts all failed resolves to failure, and every request (every call
\* in a sequence of calls) comes to an end when each external call returns.
C4_RetriesCappedAndTerminate == []C4_Cap /\ (~Done ~> Done)

\* C4 witness: three direct broadcasts failed and the request ended in
\* failure
C4_Witness ==
    /\ op = "submit" /\ Done /\ ~result.success
    /\ Len(DirectSubs) = 3
    /\ \A i \in 1..3 : ~ConfirmedOk(DirectSubs[i])

\* C5: the first direct broadcast submits the transaction with the blockhash
\* and signatures it was built with; every later one carries a blockhash
\* fetched after the previous broadcast, with the signatures of the mint and
\* the creator made over that blockhash; a broadcast is followed by another
\* only if it failed; and there are at most 3.
C5_RetryRefreshesBlockhash ==
    LET D == DirectSubs IN
    /\ Len(D) <= 3
    /\ Len(D) >= 1 =>
          /\ D[1].bh = latestBlockhash
          /\ D[1].signed = D[1].bh
    /\ \A i \in 2..Len(D) :
          /\ D[i].bh > D[i-1].fetched
          /\ D[i].signed = D[i].bh
          /\ D[i].signers = {PublicKey(tokenMint), PublicKey(CreatorKey)}
    /\ \A i \in 1..(Len(D) - 1) : ~ConfirmedOk(D[i])

\* C5 witness: the third direct broadcast, made after two failures, was
\* confirmed without error
C5_Witness ==
    /\ op = "submit" /\ Succeeded
    /\ Len(DirectSubs) = 3
    /\ ConfirmedOk(DirectSubs[3])

\* C6: a direct broadcast is made only after the relay attempt has been made
\* and has ended, and never in a request whose relay submission was accepted
\* and confirmed without execution error.
C6_DirectOnlyAfterRelayFailure ==
    calls.direct > 0 =>
        /\ Len(subs) >= 1 /\ subs[1].via = "relay"
        /\ ~ConfirmedOk(subs[1])

\* the requests C7 is about: name over 32, symbol over 8, a URL field that
\* does not match https?://, a buy amount that is not positive, a secret key
\* that is not 64 bytes long
InvalidRequest ==
    \/ req.nameLen > 32
    \/ req.symbolLen > 8
    \/ (req.url # Undefined /\ req.url[1] # <<>> /\ ~urlPattern(req.url[1]))
    \/ (req.buyAmount # Undefined /\ req.buyAmount[1] <= 0)
    \/ (op = "pump" /\ req.keyLen # 64)

\* C7: an invalid request is rejected with a message before any external
\* call is made, and nothing is done for it afterwards.
C7_InvalidRejectedBeforeNetwork ==
    (op \in {"pump", "bonk"} /\ InvalidRequest) =>
        /\ pc \in {"start", "done"}
        /\ NoNetworkCall
        /\ Done => (~result.success /\ result.error # "")

\* C8: a successful request has made exactly one create call, for its mint,
\* with status "bonding" (pump) or "active" (launchpad) and the signature of
\* the submission that succeeded.
C8_SuccessPersistsOnce ==
    (op \in {"pump", "bonk"} /\ Succeeded) =>
        /\ calls.dbCreate = 1
        /\ Len(db) = 1
        /\ db[1].tokenMint = toBase58(PublicKey(tokenMint))
        /\ db[1].status = (IF op = "pump" THEN "bonding" ELSE "active")
        /\ db[1].signature = result.signature
        /\ result.signature = SignatureOf(tx)

\* C9: when createPumpFunToken returns success, the returned mintAddress is
\* the public key of the mint keypair that was generated, that signed the
\* submitted transaction, and that is the mint account of its create
\* instruction.
C9_ReturnedMintIsSignerAndIxMint ==
    (op = "pump" /\ Succeeded) =>
        /\ result.mintAddress = toBase58(PublicKey(tokenMint))
        /\ tokenMint \in MintKeys
        /\ tx.ix.mint = PublicKey(tokenMint)
        /\ \A i \in 1..Len(subs) : PublicKey(tokenMint) \in subs[i].signers

\* C9 witness: a successful pump request
C9_Witness == op = "pump" /\ Succeeded /\ tokenMint \in MintKeys

\* C10: findAvailableAccounts hands out a mint key only when the four
\* addresses derived from that key were all reported unoccupied in the
\* attempt that generated it; after an attempt that found an occupied
\* address no key is held and the loop goes on.
C10_ReturnedAccountsWereUnoccupied ==
    /\ (op = "pump" /\ tokenMint # 0) =>
          /\ probe.mint = tokenMint
          /\ probe.addrs = DerivedAccounts(tokenMint)
          /\ \A i \in 1..4 : ~probe.occupied[i]
    /\ (op = "pump" /\ \E i \in 1..4 : probe.occupied[i]) =>
          /\ tokenMint = 0
          /\ pc \in {"p_find", "done"}
          /\ attempts >= 1

\* C10 witness: an attempt returned a key, all four of whose addresses it
\* had probed
C10_Witness ==
    /\ op = "pump" /\ pc = "p_upload"
    /\ tokenMint \in MintKeys
    /\ probe.mint = tokenMint

\* C11: findAvailableAccounts never makes more than 20 attempts; it fails
\* with the allocation error exactly when 20 attempts have each found an
\* occupied address, and the request then ends in failure with no key held
\* and no metadata upload, simulation, submission or database call made.
C11_AllocationExhaustion ==
    /\ attempts <= 20
    /\ (op = "pump" /\ result.error = AllocationError) =>
          /\ attempts = 20
          /\ \E i \in 1..4 : probe.occupied[i]
          /\ Done /\ result.kind = "returned" /\ ~result.success
          /\ tokenMint = 0
          /\ calls = NoCalls
          /\ subs = <<>> /\ db = <<>>
          /\ uri = NoUri /\ sim = "none" /\ tx = NoTx
    /\ (op = "pump" /\ Done /\ attempts = 20) => result.error = AllocationError

\* C11 witness: twenty attempts found an occupied address and the request
\* failed with the allocation error
C11_Witness ==
    /\ op = "pump" /\ Done
    /\ attempts = 20
    /\ result.error = AllocationError
    /\ ~result.success

\* C12: on both platform paths a transaction exists only after one metadata
\* upload has returned a non-empty URI, and its create instruction embeds
\* exactly that URI; after a failed upload there is no transaction, and the
\* request has ended in failure with nothing simulated or submitted.
C12_InstructionAfterUpload ==
    op \in {"pump", "bonk"} =>
        /\ tx # NoTx =>
              /\ calls.upload = 1
              /\ uri.from = "upload" /\ uri.len > 0
              /\ tx.ix.uri = uri
        /\ (calls.upload >= 1 /\ uri = NoUri) =>
              /\ tx = NoTx
              /\ Done /\ ~result.success /\ result.error # ""
              /\ calls.simulate = 0 /\ calls.relay = 0 /\ calls.direct = 0
              /\ sim = "none" /\ subs = <<>>
        /\ (calls.simulate > 0 \/ subs # <<>>) => tx # NoTx

\* C12 witness: a transaction built on the pump path embeds the URI of the
\* upload, here one of 99 characters
C12_Witness ==
    /\ op = "pump" /\ pc = "p_sim"
    /\ calls.upload = 1
    /\ uri.len = 99
    /\ tx.ix.uri = uri

\* C12 witness of the failure half is the state after a failed upload
C12_UploadFailed ==
    /\ op \in {"pump", "bonk"} /\ Done
    /\ calls.upload = 1 /\ uri = NoUri

\* C13: a POST /pumpfun/create-token request is answered exactly when it is
\* done; every request that did not succeed (rejected by the handler, or
\* createPumpFunToken returned a failure for any reason) is answered with
\* status 400 or 500 and a non-empty error and never with success = true; a
\* response with success = true is sent only for a request whose last
\* submission was confirmed without execution error.
C13_FailuresAnsweredWithError ==
    op = "http" =>
        /\ res.status \in {0, 200, 400, 500}
        /\ (res.status # 0) <=> Done
        /\ res.status \in {400, 500} => (res.error # "" /\ ~res.success)
        /\ (Done /\ ~result.success) => res.status \in {400, 500}
        /\ (Done /\ res.status = 400) => (result = NoResult /\ NoNetworkCall)
        /\ (Done /\ res.status = 500) => (result.kind = "returned" /\ res.error = result.error)
        /\ res.success =>
              /\ res.status = 200
              /\ result.success
              /\ sim = "ok"
              /\ Len(subs) >= 1 /\ ConfirmedOk(subs[Len(subs)])
        /\ (Done /\ Len(subs) >= 1 /\ subs[Len(subs)].conf = "err") => res.status = 500

\* C13 witness: the relay failed, the direct broadcast was confirmed with an
\* execution error, and the request was answered with status 500
C13_Witness ==
    /\ op = "http" /\ Done
    /\ Len(subs) = 2 /\ ~subs[1].accepted
    /\ subs[2].via = "direct" /\ subs[2].conf = "err"
    /\ res.status = 500 /\ res.error = "Transaction failed"

\* C14: when submitTransaction ends in failure, all three direct attempts
\* were made and failed, and the reported error is the error the third one
\* ended with, whichever way it failed; it is neither an earlier attempt's
\* error carried over nor the initial or the relay's message.
C14_LastAttemptErrorReported ==
    /\ Len(errs) <= 3
    /\ (op = "submit" /\ pc \in {"s_return", "done"} /\ ~fbResult.confirmed) =>
          /\ Len(errs) = 3
          /\ fbResult.error = errs[3]
          /\ fbResult.error # InitialFbResult.error
    /\ (op = "submit" /\ Done /\ ~result.success) =>
          /\ result.error = errs[3]
          /\ (Len(DirectSubs) = 3 /\ DirectSubs[3].conf = "err") =>
                result.error = ExecutionError
          /\ (Len(DirectSubs) = 3 /\ ~DirectSubs[3].accepted) =>
                result.error = "failed to send transaction"

\* C14 witness: the second attempt was confirmed with an execution error,
\* the third was rejected at submission, and the failure reports the
\* rejection
C14_Witness ==
    /\ op = "submit" /\ Done /\ ~result.success
    /\ Len(errs) = 3
    /\ errs[2] = ExecutionError
    /\ errs[3] = "failed to send transaction"
    /\ result.error = "failed to send transaction"

\* C15: once a database write has failed (it is made only after a
\* confirmation), the operation has ended with the persistence error as its
\* outcome, and no direct broadcast follows the failure.
C15_PersistenceFailureIsFinal ==
    calls.dbError > 0 =>
        /\ Done
        /\ ~result.success
        /\ result.error = PersistenceError
        /\ op = "submit" => calls.direct = 0

\* the records of the token table keyed by the mint address of the request
RecordsOfMint ==
    { i \in DOMAIN db : db[i].tokenMint = toBase58(PublicKey(tokenMint)) }

\* C16: in submitTransaction a signature update is made only after a
\* submission was confirmed without error, and when the operation succeeds
\* with a signature, by the relay or by the direct fallback, an update has
\* been made and every record of the mint carries the confirmed signature.
C16_SignatureUpdatedAfterConfirmation ==
    op = "submit" =>
        /\ calls.dbUpdate > 0 => (\E i \in DOMAIN subs : ConfirmedOk(subs[i]))
        /\ (Succeeded /\ result.signature # EmptySignature) =>
              /\ calls.dbUpdate - calls.dbError >= 1
              /\ \A i \in RecordsOfMint : db[i].signature = result.signature
              /\ result.signature = SignatureOf(tx)

C17_DuplicateRefused ==
    /\ op = "bonk" /\ Done /\ ~result.success
    /\ Len(db) = 1
    /\ db[1].tokenMint = toBase58(PublicKey(tokenMint))
    /\ calls.dbError = 1

\* C18: on the pump path, after an upload that returned a URI of more than
\* 200 characters no create instruction is built and nothing is simulated or
\* submitted, and the request ends in failure; every transaction simulated
\* or submitted embeds a URI of at most 200 characters.
C18_LongUriFailsBeforeBuild ==
    op \in PumpOps =>
        /\ uri.len > 200 =>
              /\ tx = NoTx
              /\ calls.simulate = 0
              /\ subs = <<>>
              /\ Done => ~result.success
        /\ (calls.simulate > 0 \/ subs # <<>>) => tx.ix.uri.len <= 200

\* a required secret credential is not set
CredentialMissing ==
    \/ ~env.FILEBASE_API_KEY
    \/ ~env.FILEBASE_API_SECRET
    \/ ~env.PINATA_JWT
    \/ ~env.HELIUS_API_KEY

\* C19: a process started without one of the secret credentials (storage
\* key, storage secret, pinning-service JWT, relay API key) never gets to
\* serve requests: it goes no further than loading its modules.
C19_MissingCredentialStopsStartup ==
    (op = "startup" /\ CredentialMissing) =>
        /\ server # "serving"
        /\ pc \in {"boot", "done"}

\* the records other operations stored for their own mints
OtherRecords == { i \in DOMAIN db : db[i].tokenMint = toBase58(PublicKey(OtherMint)) }

C20_InterleavedRetry ==
    /\ op = "submit" /\ Succeeded
    /\ others # {}
    /\ Len(DirectSubs) >= 2
    /\ \E b \in others : DirectSubs[1].bh < b /\ b < DirectSubs[Len(DirectSubs)].bh

\* C21: no step removes a record from the table; a step changes a record
\* only by setting the signature of the record whose mint address is the one
\* updateTokenSignaturePumpfun was called with, leaving its other fields and
\* every other record as they were; a step that fails leaves the table as
\* it was, so a record created earlier stays.
C21_RecordsKept ==
    [][ /\ Len(db') >= Len(db)
        /\ \A i \in DOMAIN db :
              \/ db'[i] = db[i]
              \/ /\ op = "submit" /\ pc = "s_update"
                 /\ calls'.dbUpdate = calls.dbUpdate + 1
                 /\ calls'.dbError = calls.dbError
                 /\ db[i].tokenMint = toBase58(PublicKey(tokenMint))
                 /\ db'[i] = [db[i] EXCEPT !.signature = fbResult.signature]
        /\ calls'.dbError # calls.dbError => db' = db
      ]_vars

\* the signature of this submission's record was set while the record of
\* another operation stood in the table
C21_Witness ==
    /\ op = "submit" /\ Succeeded
    /\ OtherRecords # {}
    /\ \A i \in OtherRecords : db[i] = PendingRecord(OtherMint)
    /\ RecordsOfMint # {}
    /\ \A i \in RecordsOfMint :
          db[i] = [PendingRecord(tokenMint) EXCEPT !.signature = SignatureOf(tx)]

\* a later call failed at its store after an earlier call's record was
\* created, and the record is still there
C21_FailedAfterCreate ==
    /\ op = "bonk" /\ Done
    /\ result.kind = "thrown" /\ result.error = PersistenceError
    /\ Len(db) >= 1

\* the attributes a request submits: none when the field is absent
SubmittedAttributes == IF req.attributes = Undefined THEN <<>> ELSE req.attributes[1]

\* C22: the document read back from the address uploadMetadata returned has
\* the name and the symbol that were submitted, the description that was
\* submitted when one was, and the attributes that were submitted.
C22_MetadataRoundTrip ==
    (op = "metadata" /\ Done /\ res # NoResponse) =>
        /\ res.document.name = req.name
        /\ res.document.symbol = req.symbol
        /\ req.description # Undefined => res.document.description = req.description[1]
        /\ res.document.attributes = SubmittedAttributes

\* the part of C22 that holds: name and symbol come back as submitted, a
\* submitted non-empty description too, and the document read is the
\* document stored
C22_NameSymbolRoundTrip ==
    (op = "metadata" /\ Done /\ res # NoResponse) =>
        /\ res.document.name = req.name
        /\ res.document.symbol = req.symbol
        /\ TruthyStr(req.description) => res.document.description = req.description[1]
        /\ res.document = uploadMetadataDocument(req)

\* C23: a success response of POST /pumpfun/create-token has status 200 and
\* success true, and its signature field is the signature string the token
\* service returned (the confirmed transaction's signature).
C23_SuccessResponseCarriesSignature ==
    (op = "http" /\ Done /\ res.success) =>
        /\ res.status = 200
        /\ res.signature = result.signature
        /\ res.signature = SignatureOf(tx)

\* the part of C23 that holds: the signature string is in the response, as
\* the signature member of the object sent in the signature field
C23_SignatureNested ==
    (op = "http" /\ Done /\ res.success) =>
        /\ res.status = 200
        /\ res.signature = result
        /\ res.signature.signature = SignatureOf(tx)

\* the decimals a launchpad request asks for: the ones supplied, 6 only
\* when none are supplied
decimalsIfSupplied(r) == IF r.decimals # Undefined THEN r.decimals[1] ELSE DefaultDecimals

\* C24: a launchpad request that supplies decimals d passes validation
\* exactly when 0 <= d <= 9, and the token of a request that passed is
\* created with the decimals asked for, which the record stores too; 6 is
\* used only when no decimals are supplied.
C24_DecimalsAsSupplied ==
    op = "bonk" =>
        /\ (Done /\ req.decimals # Undefined
               /\ (req.decimals[1] < 0 \/ req.decimals[1] > MaxDecimals)) =>
              (result.kind = "thrown" /\ NoNetworkCall)
        /\ tx # NoTx =>
              /\ validateBonk(req) = ""
              /\ tx.ix.decimals = decimalsIfSupplied(req)
        /\ (pc = "done" /\ result.success) =>
              \A i \in RecordsOfMint : db[i].decimals = decimalsIfSupplied(req)

\* the part of C24 that holds: supplied decimals outside 0..9 are refused,
\* supplied decimals 1..9 and the default 6 reach the instruction and the
\* record, and the record's decimals are the instruction's
C24_NonZeroDecimals ==
    op = "bonk" =>
        /\ (Done /\ req.decimals # Undefined
               /\ (req.decimals[1] < 0 \/ req.decimals[1] > MaxDecimals)) =>
              result.kind = "thrown"
        /\ (tx # NoTx /\ req.decimals # Some(0)) =>
              /\ validateBonk(req) = ""
              /\ tx.ix.decimals = decimalsIfSupplied(req)
              /\ tx.ix.decimals \in 1..MaxDecimals
        /\ (pc = "done" /\ result.success) =>
              \A i \in RecordsOfMint : db[i].decimals = tx.ix.decimals

\* the addresses findAvailableAccounts probed last
Probed == { probe.addrs[i] : i \in DOMAIN probe.addrs }

\* C25: the associated bonding-curve address in the create instruction's
\* accounts is the one findAvailableAccounts probed and returned for the
\* mint, and every address the instruction derives from the mint was probed
\* and found unoccupied.
C25_InstructionAccountsWereProbed ==
    (op \in PumpOps /\ tx # NoTx) =>
        /\ probe.mint = tokenMint
        /\ tx.ix.accounts.bondingCurve = probe.addrs[2]
        /\ tx.ix.accounts.associatedBondingCurve = probe.addrs[3]
        /\ \A a \in DOMAIN tx.ix.accounts : tx.ix.accounts[a] \in Probed

\* the part of C25 that holds: the mint and the bonding curve in the
\* instruction are addresses that were probed and found unoccupied
C25_MintAndBondingCurveProbed ==
    (op \in PumpOps /\ tx # NoTx) =>
        /\ probe.mint = tokenMint
        /\ tx.ix.mint = probe.addrs[1]
        /\ tx.ix.accounts.bondingCurve = probe.addrs[2]
        /\ ~probe.occupied[1] /\ ~probe.occupied[2]

\* C26: every confirmTransaction call made for a submission is given the
\* blockhash the submitted transaction was signed over; after a retry has
\* refreshed the blockhash and signed again, the retry is confirmed with
\* the refreshed blockhash.
C26_PollsUseSignedBlockhash ==
    \A i \in DOMAIN subs :
        \A j \in DOMAIN subs[i].polls : subs[i].polls[j] = subs[i].signed

\* the part of C26 that holds: the first direct attempt of
\* fallbackDirectSubmission is confirmed with the blockhash the transaction
\* carries, and every later attempt with that same, first blockhash
C26_FirstAttemptOnly ==
    op = "submit" =>
        \A i \in DOMAIN DirectSubs :
            \A j \in DOMAIN DirectSubs[i].polls :
                /\ DirectSubs[i].polls[j] = latestBlockhash
                /\ i = 1 => DirectSubs[i].polls[j] = DirectSubs[i].signed
                /\ i > 1 => DirectSubs[i].polls[j] < DirectSubs[i].signed

\* the URI a request supplies
SuppliedUri(r) == [len |-> r.uriLen, from |-> "request"]

\* C27: the create instruction of a request that supplies a URI embeds the
\* supplied URI, and no metadata upload is made for it; a request that
\* supplies an image and no URI gets the URI its upload returned.
C27_SuppliedUriEmbedded ==
    (op \in PumpOps /\ tx # NoTx) =>
        IF req.uriLen # 0
        THEN tx.ix.uri = SuppliedUri(req) /\ calls.upload = 0
        ELSE tx.ix.uri = uri /\ uri.from = "upload" /\ calls.upload = 1

\* what the code does for a request that supplies a URI: the upload is
\* made all the same, and its URI is the one embedded
C27_SuppliedUriReplaced ==
    /\ op \in PumpOps /\ tx # NoTx
    /\ req.uriLen = MaxUriLen
    /\ calls.upload = 1
    /\ tx.ix.uri.from = "upload"
    /\ tx.ix.uri.len # MaxUriLen

\* C28: the mayhem-mode byte of the create instruction built for a POST
\* /pumpfun/create-token request is 1 exactly when the request asked for
\* mayhemMode true; it is 0 when the request did not specify mayhemMode or
\* specified false.
C28_MayhemByteAsRequested ==
    (op = "http" /\ tx # NoTx) =>
        (tx.ix.mayhemMode = 1 <=> req.mayhemMode = Some(TRUE))

\* the part of C28 that holds: createPumpFunInstruction writes 1 exactly
\* when the request createPumpFunToken was called with has mayhemMode true,
\* which through the route is every request
C28_MayhemByteOfTokenData ==
    (op \in PumpOps /\ tx # NoTx) =>
        /\ tx.ix.mayhemMode \in {0, 1}
        /\ tx.ix.mayhemMode = 1 <=> tokenData.mayhemMode = Some(TRUE)
        /\ op = "http" => tx.ix.mayhemMode = 1
        /\ op = "pump" => (tx.ix.mayhemMode = 1 <=> req.mayhemMode = Some(TRUE))

\* C29: the server starts to listen only in a step taken after
\* testConnection() returned true; when the test returns false or throws,
\* the process exits with code 1, and a process that has exited or crashed
\* never listens.
C29_ListenOnlyAfterConnectionTest ==
    [][ op = "startup" =>
          /\ (server' = "serving" /\ server # "serving") =>
                (server = "connected" /\ pc = "listen")
          /\ (server' = "connected" /\ server # "connected") => pc = "db_test"
          /\ (pc = "db_test" /\ pc' # "db_test") =>
                \/ server' = "connected" /\ pc' = "listen"
                \/ server' = "exited" /\ pc' = "done"
          /\ server \in {"exited", "crashed"} => server' = server
      ]_vars

\* the server listens after a connection test that returned true
C29_Witness ==
    /\ op = "startup" /\ Done
    /\ server = "serving"

\* the connection test returned false or threw, and the process has exited
C29_Exited ==
    /\ op = "startup" /\ Done
    /\ server = "exited"

\* the data the claim describes: every string written whole after a prefix
\* that counts its bytes, the creator's key and the mode byte after the uri
WholeStringsData(r, creatorPub) ==
    Discriminator
    \o UInt32LE(Len(Utf8(r.name))) \o Utf8(r.name)
    \o UInt32LE(Len(Utf8(r.symbol))) \o Utf8(r.symbol)
    \o UInt32LE(Len(Utf8(r.uri))) \o Utf8(r.uri)
    \o KeyBytes(creatorPub)
    \o UInt8(IF TruthyBool(r.mayhemMode) THEN 1 ELSE 0)

\* every character of the request's strings takes one byte
OneByteStrings(r) ==
    \A f \in {"name", "symbol", "uri"} :
        \A i \in DOMAIN r[f] : r[f][i].bytes = 1

\* C30: for every name, symbol and uri that validation accepts, strings
\* with multi-byte characters included, the data createPumpFunInstruction
\* builds is as long as the bytes written, each length prefix is the number
\* of bytes of its string, every string is there whole, and the creator's
\* key and the mode byte follow the complete uri.
C30_DataHoldsWholeStrings ==
    (op = "encode" /\ Done) =>
        tx.ix.data = WholeStringsData(req, PublicKey(creatorKeypair[1]))

\* the part of C30 that holds: the data is laid out as described when every
\* character takes one byte, and in every case the data is as long as the
\* lengths in UTF-16 units add up to, ending with the key and the mode byte
C30_OneByteStringsWhole ==
    (op = "encode" /\ Done) =>
        /\ OneByteStrings(req) =>
              tx.ix.data = WholeStringsData(req, PublicKey(creatorKeypair[1]))
        /\ Len(tx.ix.data) = 8 + 4 + length(req.name) + 4 + length(req.symbol)
                                + 4 + length(req.uri) + 32 + 1
        /\ SubSeq(tx.ix.data, Len(tx.ix.data) - 32, Len(tx.ix.data)) =
              KeyBytes(PublicKey(creatorKeypair[1]))
              \o UInt8(IF TruthyBool(req.mayhemMode) THEN 1 ELSE 0)

====
